---- MODULE Spec2Model ----
(***************************************************************************)
(* A model of github-activity-reporter: the commit aggregator              *)
(* (commit_collector/commit_stats.py), the activity extractor              *)
(* (github_logger/github_report.py) and the Looker Studio exporter         *)
(* (exporters/looker_studio_exporter.py).                                  *)
(*                                                                         *)
(* The module holds three specifications:                                  *)
(*   SpecAgg     aggregate_commit_data as a pure function                  *)
(*   SpecExport  the exporter over the ./data tree and the external feeds  *)
(*   SpecRun     collector runs against the clock and the output tree      *)
(* The clock and the output tree are shared by SpecExport and SpecRun.     *)
(***************************************************************************)
EXTENDS Integers, Sequences, FiniteSets, TLC

VARIABLES
    \* ---- SpecAgg
    commits,        \* the input of aggregate_commit_data
    aggregated,     \* its return value (dict values in insertion order)
    aggPc,          \* "start" | "done"
    \* ---- the environment shared by the collectors and the exporter
    clock,          \* the wall clock (UTC), in hours since 2025-05-01T00:00
    hasToken,       \* whether `gh auth token` succeeds
    tree,           \* the files under the output root ./data: path -> content
    dirs,           \* the directories created under ./data by ensure_dir
    \* ---- SpecExport
    prCorpus,       \* ../pr-data/prs: [exists, files]
    usageFeed,      \* ../devin-stat/data/usage_history.json: [exists, sessions]
    unified,        \* the unified export returned by the latest run
    flat,           \* the flat records written by the latest flat export
    exportRuns,     \* the log of the export runs: kind, output file, files scanned, total
    prDays,         \* the days argument of collect_pr_data_stats
    prStats,        \* the list collect_pr_data_stats returned
    prPc,           \* "start" | "done"
    \* ---- SpecRun
    mainPc,         \* position of github_report.main
    mainArgs,       \* the arguments of the github_report run in progress
    mainLabel,      \* date_range_dir computed by main
    mainTodo,       \* repositories main has still to extract
    mainItems,      \* all_items of the github_report run
    mainWrites,     \* the files the latest github_report run wrote: [kind, label, path]
    runLog,         \* the collector calls so far, in order
    \* ---- SpecMarkdown
    mdPc,           \* "idle" | "from_file" | "report" | "item"
    mdIn,           \* the arguments of the latest call
    mdOut,          \* what the call returned and wrote
    \* ---- SpecCalls
    lastCall,       \* the latest collector call: its arguments, the gh outcomes, its result
    callCount,      \* the collector calls so far
    \* ---- SpecSheets
    worksheet,      \* Sheet1 of the spreadsheet: [exists, rows]
    lastUpload,     \* the latest call on the sheet: arguments, API outcomes, result
    uploads,        \* the calls on the sheet so far
    \* ---- SpecCli
    cliRun,         \* the latest run of a CLI entry point: arguments, environment, outcome
    \* ---- SpecConfig
    environ,        \* os.environ of the process: NAME -> value
    cfgFiles,       \* the assignments of ./.env and of the --config file
    config,         \* the Config object main holds: [environ, _config]
    cfgCalls,       \* the Config(...) calls so far: the file and os.environ before
    cfgPc,          \* "start" | "loaded" | "overridden"
    lastGet         \* the latest config.get: key, default, os.environ, value

aggVars == <<commits, aggregated, aggPc>>
envVars == <<clock, hasToken, tree, dirs>>
exportVars == <<prCorpus, usageFeed, unified, flat, exportRuns, prDays, prStats, prPc>>
runVars == <<mainPc, mainArgs, mainLabel, mainTodo, mainItems, mainWrites, runLog>>
mdVars == <<mdPc, mdIn, mdOut>>
callVars == <<lastCall, callCount>>
sheetVars == <<worksheet, lastUpload, uploads>>
cfgVars == <<environ, cfgFiles, config, cfgCalls, cfgPc, lastGet>>
cliVars == <<cliRun, cfgVars>>
auxVars == <<mdVars, callVars, sheetVars, cliVars>>
vars == <<aggVars, envVars, exportVars, runVars, auxVars>>

----------------------------------------------------------------------------
(* Bounds of the model. *)

MaxCommits == 3

\* the clock value the exporter runs at, in hours since 2025-05-01T00:00Z
Now0 == 240

\* the PR corpus holds at most this many PR files
MaxPrFiles == 2

\* the usage feed holds at most this many sessions
MaxSessions == 1

\* export runs in one behaviour
MaxExports == 2

\* the clock advances at most this many times, six hours at a time
MaxTicks == 2

\* collector calls in one behaviour
MaxRuns == 2

\* collector calls with failing fetches in one behaviour
MaxCalls == 2

\* calls on the worksheet in one behaviour
MaxUploads == 2

----------------------------------------------------------------------------
(* Helpers on sequences. *)

SeqsUpTo(S, n) == UNION {[1..k -> S] : k \in 0..n}

Range(s) == {s[i] : i \in 1..Len(s)}

RECURSIVE SumSeq(_)
SumSeq(s) == IF s = <<>> THEN 0 ELSE Head(s) + SumSeq(Tail(s))

Permutations_of(n) == {p \in [1..n -> 1..n] : \A i, j \in 1..n : p[i] = p[j] => i = j}

----------------------------------------------------------------------------
(* commit_stats.py: aggregate_commit_data *)

Repos == {"x", "y"}
Authors == {"a", "b"}
Dates == {"2025-05-01", "2025-05-02"}

\* a processed commit, as extract_commit_data builds it (count is always 1)
CommitRecords == [repository : Repos, author : Authors, date : Dates, count : {1}]

\* a variant keyed on (repository, author) only
CommitKeyNoDate(c) == <<c.repository, c.author, "">>

\* key = (commit['repository'], commit['author'], commit['date'])
CommitKey(c) == <<c.repository, c.author, c.date>>

\* the position of key k among the dict's values, 0 when absent
KeyIndex(agg, k) ==
    IF \E i \in 1..Len(agg) : CommitKey(agg[i]) = k
    THEN CHOOSE i \in 1..Len(agg) : CommitKey(agg[i]) = k
    ELSE 0

\* a variant that merges a commit only into the record inserted last
AggStepAdjacent(agg, commit) ==
    IF Len(agg) > 0 /\ CommitKey(agg[Len(agg)]) = CommitKey(commit)
    THEN [agg EXCEPT ![Len(agg)].count = @ + 1]
    ELSE Append(agg, [repository |-> commit.repository, author |-> commit.author,
                      date |-> commit.date, count |-> 1])

\* one iteration of the loop: `if key in aggregated: ... += 1 else: ... = {...}`
AggStep(agg, commit) ==
    LET i == KeyIndex(agg, CommitKey(commit))
    IN IF i # 0
       THEN [agg EXCEPT ![i].count = @ + 1]
       ELSE Append(agg, [repository |-> commit.repository, author |-> commit.author,
                         date |-> commit.date, count |-> 1])

RECURSIVE AggFold(_, _)
AggFold(agg, cs) == IF cs = <<>> THEN agg ELSE AggFold(AggStep(agg, Head(cs)), Tail(cs))

aggregate_commit_data(cs) == AggFold(<<>>, cs)

----------------------------------------------------------------------------
(* SpecAgg: aggregate_commit_data applied to every bounded commit list. *)

Aggregate ==
    /\ aggPc = "start"
    /\ aggregated' = aggregate_commit_data(commits)
    /\ aggPc' = "done"
    /\ UNCHANGED <<commits, envVars, exportVars, runVars, auxVars>>

AggInit == commits \in SeqsUpTo(CommitRecords, MaxCommits) /\ aggregated = <<>> /\ aggPc = "start"

----------------------------------------------------------------------------
(* Claims about aggregate_commit_data. *)

\* the (repository, author, date) triple of a record
Triple(c) == <<c.repository, c.author, c.date>>

\* the (repository, author, date) -> count mapping a result list denotes
CountPairs(agg) == {<<Triple(agg[i]), agg[i].count>> : i \in 1..Len(agg)}

Permuted(s, p) == [i \in 1..Len(s) |-> s[p[i]]]

\* C1: aggregate_commit_data returns exactly one record per distinct
\* (repository, author, date) triple of the input, whose count is the number of
\* input commits carrying that triple; the counts sum to the input length.
C1_OneRecordPerTriple ==
    aggPc = "done" =>
        /\ \A i, j \in 1..Len(aggregated) :
              Triple(aggregated[i]) = Triple(aggregated[j]) => i = j
        /\ {Triple(aggregated[i]) : i \in 1..Len(aggregated)}
              = {Triple(commits[i]) : i \in 1..Len(commits)}
        /\ \A i \in 1..Len(aggregated) :
              aggregated[i].count
                = Cardinality({j \in 1..Len(commits) : Triple(commits[j]) = Triple(aggregated[i])})
        /\ SumSeq([i \in 1..Len(aggregated) |-> aggregated[i].count]) = Len(commits)

C1_Witness ==
    /\ aggPc = "done"
    /\ Len(aggregated) = 2
    /\ \E i \in 1..Len(aggregated) : aggregated[i].count = 2
    /\ \E i, j \in 1..Len(commits) : i + 1 < j /\ Triple(commits[i]) = Triple(commits[j])

\* C2: aggregation is order-insensitive: every permutation of the commit list,
\* and the concatenation of any two parts of it in either order, aggregates to
\* the same (repository, author, date) -> count mapping.
C2_OrderInsensitive ==
    aggPc = "done" =>
        /\ \A p \in Permutations_of(Len(commits)) :
              CountPairs(aggregate_commit_data(Permuted(commits, p))) = CountPairs(aggregated)
        /\ \A k \in 0..Len(commits) :
              LET a == SubSeq(commits, 1, k)
                  b == SubSeq(commits, k + 1, Len(commits))
              IN /\ CountPairs(aggregate_commit_data(a \o b)) = CountPairs(aggregated)
                 /\ CountPairs(aggregate_commit_data(b \o a)) = CountPairs(aggregated)

C2_Witness ==
    /\ aggPc = "done"
    /\ Len(commits) = 3
    /\ Triple(commits[1]) = Triple(commits[3])
    /\ Triple(commits[1]) # Triple(commits[2])
    /\ \E i \in 1..Len(aggregated) : aggregated[i].count = 2

----------------------------------------------------------------------------
(* The clock, calendar dates and the directory label. *)

\* a datetime with its timezone: [utc: hours since 2025-05-01T00:00Z, tz]
DateTime(now, timezone_str) == [utc |-> now, tz |-> timezone_str]

\* tz = timezone.utc if timezone_str == "UTC" else timezone(timedelta(hours=9))
UtcOffset(timezone_str) == IF timezone_str = "UTC" THEN 0 ELSE 9

\* datetime - timedelta(days=n)
MinusDays(dt, n) == [dt EXCEPT !.utc = @ - 24 * n]

\* datetime.date(): the calendar day in the datetime's own timezone,
\* as a day number counted from 2025-05-01
DateOf(dt) == (dt.utc + UtcOffset(dt.tz)) \div 24

\* datetime.hour, in the datetime's own timezone
HourOf(dt) == (dt.utc + UtcOffset(dt.tz)) % 24

TwoDigits(n) == IF n < 10 THEN "0" \o ToString(n) ELSE ToString(n)

\* date.isoformat(), for the days of April and May 2025
isoformat(d) ==
    IF d >= 0 THEN "2025-05-" \o TwoDigits(d + 1) ELSE "2025-04-" \o TwoDigits(d + 31)

\* a label that keeps the time of day: datetime.isoformat() instead of date().isoformat()
date_range_dir_with_time(start_date, end_date) ==
    isoformat(DateOf(start_date)) \o "T" \o TwoDigits(HourOf(start_date)) \o "_to_"
        \o isoformat(DateOf(end_date)) \o "T" \o TwoDigits(HourOf(end_date))

\* f"{start_date.date().isoformat()}_to_{end_date.date().isoformat()}"
date_range_dir(start_date, end_date) ==
    isoformat(DateOf(start_date)) \o "_to_" \o isoformat(DateOf(end_date))

----------------------------------------------------------------------------
(* file_utils.py over the output root ./data. *)

\* ./data/<dir>/<sub>/<stem>.<ext>; a file directly under ./data has dir = sub = ""
FilePath(dir, sub, stem, ext) == [dir |-> dir, sub |-> sub, stem |-> stem, ext |-> ext]

\* Path.parent, as the pair of directory segments
Parent(p) == [dir |-> p.dir, sub |-> p.sub]

\* a JSON document: a top-level list, or a top-level object (held as its one record)
JsonList(items) == [top |-> "list", val |-> items]
JsonDict(obj) == [top |-> "dict", val |-> <<obj>>]

NoFiles == [p \in {} |-> JsonList(<<>>)]

\* the tree after open(path, 'w') + json.dump: an existing file is overwritten
WriteFile(t, p, content) == [q \in DOMAIN t \cup {p} |-> IF q = p THEN content ELSE t[q]]

\* read_json_file: a list as it is, an object wrapped into a one-element list,
\* [] when the file is missing
read_json_file(t, p) ==
    IF p \notin DOMAIN t THEN <<>>
    ELSE IF t[p].top = "list" THEN t[p].val
    ELSE IF t[p].top = "dict" THEN <<t[p].val[1]>>
    ELSE <<>>

\* dict.get(key, default)
Get(item, key, default) == IF key \in DOMAIN item THEN item[key] ELSE default

RECURSIVE SetToSeq(_)
SetToSeq(S) ==
    IF S = {} THEN <<>>
    ELSE LET x == CHOOSE y \in S : TRUE IN <<x>> \o SetToSeq(S \ {x})

RECURSIVE Concat(_)
Concat(ss) == IF ss = <<>> THEN <<>> ELSE Head(ss) \o Concat(Tail(ss))

----------------------------------------------------------------------------
(* The repository host, as `gh issue list` and `gh pr list` answer. *)

Owner == "team-mirai-volunteer"

\* a repository in owner/repo form
RepoOf(name) == [owner |-> Owner, name |-> name]

HostRepos == {RepoOf(n) : n \in Repos}

Issue(n, t, st, upd) ==
    [number |-> n, title |-> t, state |-> st, createdAt |-> "2025-05-01T00:00:00Z",
     updatedAt |-> upd, author |-> [login |-> "alice"],
     labels |-> <<[name |-> "bug"]>>, comments |-> <<[body |-> "ok"]>>,
     url |-> "https://github.com/team-mirai-volunteer/r/issues"]

PullRequest(n, t, st, upd) ==
    [number |-> n, title |-> t, state |-> st, createdAt |-> "2025-05-02T00:00:00Z",
     updatedAt |-> upd, author |-> [login |-> "bob"],
     labels |-> <<>>, comments |-> <<>>,
     url |-> "https://github.com/team-mirai-volunteer/r/pull",
     mergedAt |-> "2025-05-03T00:00:00Z", mergeable |-> "MERGEABLE"]

\* what the host holds for each repository
HostIssues(repo) ==
    IF repo.name = "x"
    THEN <<Issue(1, "crash", "OPEN", "2025-05-04T00:00:00Z"),
           Issue(2, "typo", "CLOSED", "2025-05-03T00:00:00Z")>>
    ELSE <<Issue(7, "docs", "OPEN", "2025-05-05T00:00:00Z")>>

HostPRs(repo) ==
    IF repo.name = "x"
    THEN <<PullRequest(3, "fix crash", "MERGED", "2025-05-06T00:00:00Z")>>
    ELSE <<>>

----------------------------------------------------------------------------
(* github_report.py: extract_github_data *)

\* repo_name = repo.split("/")[1]
repo_name(repo) == repo.name

\* the outcome of one fetch: its list when the gh call succeeds, [] when it
\* raises CalledProcessError
Fetched(ok, items) == IF ok THEN items ELSE <<>>

\* github_raw_dir / f"{repo_name}.json"
SnapshotPath(label, repo) == FilePath(label, "raw/github", repo_name(repo), "json")

\* github_raw_dir / f"{repo_name}_summary.json"
SummaryPath(label, repo) ==
    FilePath(label, "raw/github", repo_name(repo) \o "_summary", "json")

\* a variant that puts the PRs first
all_data_prs_first(all_issues, all_prs) == all_prs \o all_issues

\* all_data = all_issues + all_prs
all_data(all_issues, all_prs) == all_issues \o all_prs

\* One call of extract_github_data at clock value `now`: what it returns and what
\* it leaves on disk. issue_ok and pr_ok say whether the two gh calls succeed.
extract_github_data(t, repo, last_days, include_prs, timezone_str, now, token, issue_ok, pr_ok) ==
    IF ~token
    THEN [ok |-> FALSE, tree |-> t, mkdirs |-> {}, written |-> {}, fetches |-> 0]
    ELSE
      LET end_date == DateTime(now, timezone_str)
          start_date == MinusDays(end_date, last_days)
          label == date_range_dir(start_date, end_date)
          all_issues == Fetched(issue_ok, HostIssues(repo))
          all_prs == IF include_prs THEN Fetched(pr_ok, HostPRs(repo)) ELSE <<>>
          github_file == SnapshotPath(label, repo)
          summary_file == SummaryPath(label, repo)
          result == [repo |-> repo,
                     period |-> [start |-> isoformat(DateOf(start_date)),
                                 end |-> isoformat(DateOf(end_date)),
                                 days |-> last_days],
                     counts |-> [issues |-> Len(all_issues), prs |-> Len(all_prs),
                                 total |-> Len(all_data(all_issues, all_prs))],
                     file |-> github_file]
      IN [ok |-> TRUE,
          result |-> result,
          json_file |-> github_file,
          label |-> label,
          start_date |-> DateOf(start_date),
          end_date |-> DateOf(end_date),
          tree |-> WriteFile(WriteFile(t, github_file,
                                       JsonList(all_data(all_issues, all_prs))),
                             summary_file, JsonList(<<result>>)),
          mkdirs |-> {Parent(github_file), Parent(summary_file)},
          written |-> {github_file, summary_file},
          fetches |-> IF include_prs THEN 2 ELSE 1]

----------------------------------------------------------------------------
(* looker_studio_exporter.py: the external PR corpus and collect_pr_data_stats *)

\* basic_info of one PR file of ../pr-data/prs. created_at is held parsed:
\* form says how the timestamp is written ("naive": no UTC offset, "Z": a
\* trailing Z, "offset": an explicit +00:00, "empty": the empty string) and
\* at is the instant it denotes, in hours since 2025-05-01T00:00Z.
PrFile(n, form, at, state, merged, login) ==
    [basic_info |-> [number |-> n, title |-> "pr",
                     created_at |-> [form |-> form, at |-> at],
                     state |-> state, merged_at |-> merged,
                     user |-> [login |-> login]]]

\* the PR files the corpus is drawn from: ages of 12 hours, exactly one day and
\* five days before Now0
PrFiles ==
    { PrFile(1, "naive", Now0 - 12, "open", FALSE, "alice"),
      PrFile(2, "naive", Now0 - 24, "closed", TRUE, "devin-ai-integration[bot]"),
      PrFile(3, "naive", Now0 - 120, "closed", TRUE, "alice"),
      PrFile(4, "naive", Now0 - 12, "closed", FALSE, "alice"),
      PrFile(5, "Z", Now0 - 12, "closed", TRUE, "alice"),
      PrFile(6, "offset", Now0 - 12, "open", FALSE, "Devin-Bot"),
      PrFile(7, "empty", 0, "open", FALSE, "alice") }

PrCorpora ==
    {[exists |-> FALSE, files |-> <<>>]}
        \cup {[exists |-> TRUE, files |-> fs] : fs \in SeqsUpTo(PrFiles, MaxPrFiles)}

\* datetime.fromisoformat(created_at.replace("Z", "+00:00")): a timestamp with a
\* Z or an offset parses to an aware datetime, one without to a naive datetime
fromisoformat(created_at) ==
    [aware |-> created_at.form \in {"Z", "offset"}, at |-> created_at.at]

\* datetime >= datetime raises TypeError when one side is aware and the other naive
CompareRaises(a, b) == a.aware # b.aware

\* cutoff_date = datetime.now() - timedelta(days=days): a naive datetime
CutoffDate(now, days) == [aware |-> FALSE, at |-> now - 24 * days]

\* whether the loop body reaches `total_prs += 1` for this PR file: created_at is
\* non-empty, the comparison does not raise (the bare except skips the file) and
\* pr_date >= cutoff_date
PrCounted(pr, cutoff_date) ==
    /\ pr.basic_info.created_at.form # "empty"
    /\ LET pr_date == fromisoformat(pr.basic_info.created_at)
       IN /\ ~CompareRaises(pr_date, cutoff_date)
          /\ pr_date.at >= cutoff_date.at

\* state == "closed" and basic_info.merged_at
PrMerged(pr) == pr.basic_info.state = "closed" /\ pr.basic_info.merged_at

\* elif state == "open"
PrOpen(pr) == ~PrMerged(pr) /\ pr.basic_info.state = "open"

\* a variant that counts the merged PRs of the whole corpus, outside the window test
MergedCountAll(files, cutoff_date) ==
    Cardinality({i \in 1..Len(files) : PrMerged(files[i])})

\* total_prs, merged_prs and open_prs after the loop over the PR files
TotalCount(files, cutoff_date) ==
    Cardinality({i \in 1..Len(files) : PrCounted(files[i], cutoff_date)})

MergedCount(files, cutoff_date) ==
    Cardinality({i \in 1..Len(files) : PrCounted(files[i], cutoff_date) /\ PrMerged(files[i])})

OpenCount(files, cutoff_date) ==
    Cardinality({i \in 1..Len(files) : PrCounted(files[i], cutoff_date) /\ PrOpen(files[i])})

\* a variant that divides whatever the total is
MergeRateUnguarded(merged_prs, total_prs) == [num |-> merged_prs, den |-> total_prs]

\* merged_prs / total_prs if total_prs > 0 else 0, as the fraction num/den
MergeRate(merged_prs, total_prs) ==
    IF total_prs > 0 THEN [num |-> merged_prs, den |-> total_prs]
    ELSE [num |-> 0, den |-> 1]

\* the summary record appended after the loop over the PR files
PrSummary(corpus, days, now) ==
    LET cutoff_date == CutoffDate(now, days)
        total_prs == TotalCount(corpus.files, cutoff_date)
        merged_prs == MergedCount(corpus.files, cutoff_date)
        open_prs == OpenCount(corpus.files, cutoff_date)
    IN [source |-> "pr_statistics", type |-> "summary", period_days |-> days,
        total_prs |-> total_prs, merged_prs |-> merged_prs, open_prs |-> open_prs,
        merge_rate |-> MergeRate(merged_prs, total_prs), generated_at |-> now]

\* a variant without the early return for a missing directory
collect_pr_data_stats_always(corpus, days, now) == <<PrSummary(corpus, days, now)>>

\* `if not self.pr_data_dir.exists(): return pr_stats`, else the one summary record
collect_pr_data_stats(corpus, days, now) ==
    IF ~corpus.exists THEN <<>> ELSE <<PrSummary(corpus, days, now)>>

----------------------------------------------------------------------------
(* looker_studio_exporter.py: the activity scan, the usage feed and the exports *)

\* data_dir.glob("*/raw/github/*.json")
GlobRawGithub(t) ==
    {p \in DOMAIN t : p.dir # "" /\ p.sub = "raw/github" /\ p.ext = "json"}

\* the record appended for one item of a scanned file
ActivityRecordOf(repo_file, item) ==
    [source |-> "github_activity",
     repository |-> repo_file.stem,
     type |-> Get(item, "type", "unknown"),
     title |-> Get(item, "title", ""),
     state |-> Get(item, "state", ""),
     created_at |-> Get(item, "created_at", ""),
     updated_at |-> Get(item, "updated_at", ""),
     user |-> IF "user" \in DOMAIN item THEN Get(item["user"], "login", "") ELSE "",
     labels |-> LET ls == Get(item, "labels", <<>>)
                IN [i \in 1..Len(ls) |-> Get(ls[i], "name", "")],
     comments_count |-> Len(Get(item, "comments", <<>>))]

\* the records of one scanned file, in item order
ActivityRecordsOfFile(t, repo_file) ==
    LET repo_data == read_json_file(t, repo_file)
    IN [i \in 1..Len(repo_data) |-> ActivityRecordOf(repo_file, repo_data[i])]

\* the files in the order the glob yields them (an order the file system chooses)
collect_github_activity_data(t) ==
    LET files == SetToSeq(GlobRawGithub(t))
    IN Concat([i \in 1..Len(files) |-> ActivityRecordsOfFile(t, files[i])])

\* the sessions of usage_history.json: [exists, sessions]; the file holds
\* [{"data": sessions}] when it exists
Sessions == {[session |-> "s1", created_at |-> "2025-05-09", acus_used |-> 3]}

\* any(pattern in user_login.lower() for pattern in devin_patterns)
IsDevinLogin(login) == login \in {"devin-ai-integration[bot]", "Devin-Bot"}

DevinUsageRecord(session) ==
    [source |-> "devin_usage",
     session_name |-> Get(session, "session", ""),
     created_at |-> Get(session, "created_at", ""),
     acus_used |-> Get(session, "acus_used", 0),
     type |-> "usage"]

DevinPrRecord(pr) ==
    [source |-> "devin_pr",
     pr_number |-> pr.basic_info.number,
     title |-> pr.basic_info.title,
     state |-> pr.basic_info.state,
     created_at |-> pr.basic_info.created_at,
     merged_at |-> pr.basic_info.merged_at,
     type |-> "devin_pr"]

collect_devin_stats_data(feed, corpus) ==
    LET usage == IF feed.exists
                 THEN [i \in 1..Len(feed.sessions) |-> DevinUsageRecord(feed.sessions[i])]
                 ELSE <<>>
        devin == IF corpus.exists
                 THEN SelectSeq(corpus.files,
                                LAMBDA pr : IsDevinLogin(pr.basic_info.user.login))
                 ELSE <<>>
    IN usage \o [i \in 1..Len(devin) |-> DevinPrRecord(devin[i])]

\* generate_unified_export: the document it returns and the tree after it has
\* written the document to Path("./data") / output_file
generate_unified_export(t, corpus, feed, output_file, days, now) ==
    LET github_data == collect_github_activity_data(t)
        devin_data == collect_devin_stats_data(feed, corpus)
        pr_stats == collect_pr_data_stats(corpus, days, now)
        unified_data ==
            [metadata |-> [generated_at |-> now,
                           period_days |-> days,
                           data_sources |-> <<"github_activity", "devin_stats", "pr_data">>,
                           total_records |-> Len(github_data) + Len(devin_data) + Len(pr_stats)],
             github_activity |-> github_data,
             devin_stats |-> devin_data,
             pr_statistics |-> pr_stats,
             summary |-> [github_items |-> Len(github_data),
                          devin_sessions |->
                              Len(SelectSeq(devin_data, LAMBDA d : d.source = "devin_usage")),
                          devin_prs |->
                              Len(SelectSeq(devin_data, LAMBDA d : d.source = "devin_pr")),
                          pr_stats_records |-> Len(pr_stats)]]
    IN [unified |-> unified_data,
        tree |-> WriteFile(t, output_file, JsonDict(unified_data)),
        mkdirs |-> {Parent(output_file)}]

\* the default arguments of generate_unified_export
DefaultOutputFile == FilePath("", "", "looker_studio_data", "json")
DefaultDays == 30

\* the 11 columns of a flat record
FlatColumns ==
    {"source_type", "repository", "item_type", "title", "state", "created_at",
     "updated_at", "user", "labels", "comments_count", "numeric_value"}

\* "|".join(labels)
RECURSIVE JoinLabels(_)
JoinLabels(ls) ==
    IF ls = <<>> THEN ""
    ELSE IF Len(ls) = 1 THEN ls[1]
    ELSE ls[1] \o "|" \o JoinLabels(Tail(ls))

FlatGithub(item) ==
    [source_type |-> "github_activity",
     repository |-> Get(item, "repository", ""),
     item_type |-> Get(item, "type", ""),
     title |-> Get(item, "title", ""),
     state |-> Get(item, "state", ""),
     created_at |-> Get(item, "created_at", ""),
     updated_at |-> Get(item, "updated_at", ""),
     user |-> Get(item, "user", ""),
     labels |-> JoinLabels(Get(item, "labels", <<>>)),
     comments_count |-> Get(item, "comments_count", 0),
     numeric_value |-> Get(item, "comments_count", 0)]

\* `a or b` on the values the devin records hold
OrElse(a, empty, b) == IF a = empty THEN b ELSE a

FlatDevin(item) ==
    [source_type |-> "devin_stats",
     repository |-> "",
     item_type |-> Get(item, "type", ""),
     title |-> IF Get(item, "session_name", "") # ""
               THEN item.session_name
               ELSE "PR #" \o ToString(Get(item, "pr_number", "")),
     state |-> Get(item, "state", ""),
     created_at |-> Get(item, "created_at", ""),
     updated_at |-> "",
     user |-> "devin",
     labels |-> "",
     comments_count |-> 0,
     numeric_value |-> OrElse(Get(item, "acus_used", 0), 0, Get(item, "pr_number", 0))]

FlatPrStats(item) ==
    [source_type |-> "pr_statistics",
     repository |-> "team-mirai/policy",
     item_type |-> "summary",
     title |-> "PR Statistics (" \o ToString(Get(item, "period_days", 0)) \o " days)",
     state |-> "summary",
     created_at |-> Get(item, "generated_at", ""),
     updated_at |-> "",
     user |-> "system",
     labels |-> "",
     comments_count |-> Get(item, "total_prs", 0),
     numeric_value |-> Get(item, "merge_rate", 0)]

\* a variant whose third loop is missing: the pr_statistics records are not projected
FlatRecordsNoPrStats(unified_data) ==
    [i \in 1..Len(unified_data.github_activity) |-> FlatGithub(unified_data.github_activity[i])]
        \o [i \in 1..Len(unified_data.devin_stats) |-> FlatDevin(unified_data.devin_stats[i])]

\* the three loops of export_for_google_sheets over the unified export
FlatRecords(unified_data) ==
    [i \in 1..Len(unified_data.github_activity) |-> FlatGithub(unified_data.github_activity[i])]
        \o [i \in 1..Len(unified_data.devin_stats) |-> FlatDevin(unified_data.devin_stats[i])]
        \o [i \in 1..Len(unified_data.pr_statistics) |-> FlatPrStats(unified_data.pr_statistics[i])]

\* export_for_google_sheets: it runs generate_unified_export() with its defaults,
\* then writes the flat records to Path("./data") / output_file
export_for_google_sheets(t, corpus, feed, output_file, now) ==
    LET run == generate_unified_export(t, corpus, feed, DefaultOutputFile, DefaultDays, now)
        flat_records == FlatRecords(run.unified)
    IN [unified |-> run.unified,
        flat |-> flat_records,
        tree |-> WriteFile(run.tree, output_file, JsonList(flat_records)),
        mkdirs |-> run.mkdirs \cup {Parent(output_file)}]

----------------------------------------------------------------------------
(* commit_stats.py: extract_commit_data and collect_all_commit_data *)

Commit(repo, author, date) ==
    [repository |-> repo_name(repo), author |-> author, date |-> date, count |-> 1]

\* the processed commits of the window that the host holds for each repository
HostCommits(repo) ==
    IF repo.name = "x"
    THEN <<Commit(repo, "a", "2025-05-01"), Commit(repo, "a", "2025-05-01"),
           Commit(repo, "b", "2025-05-02")>>
    ELSE <<Commit(repo, "a", "2025-05-01")>>

\* a variant that keeps the first commit of a failed fetch
extract_commit_data_partial(repo, token, fetch_ok) ==
    IF ~token THEN <<>> ELSE IF fetch_ok THEN HostCommits(repo) ELSE <<HostCommits(repo)[1]>>

\* extract_commit_data: [] without a token, [] when `gh api` fails
extract_commit_data(repo, token, fetch_ok) ==
    IF ~token THEN <<>> ELSE IF fetch_ok THEN HostCommits(repo) ELSE <<>>

\* One call of collect_all_commit_data at clock value `now`, with repos given;
\* fetch_ok[repo] says whether the gh call for that repository succeeds.
collect_all_commit_data(t, repos, days, timezone_str, now, token, fetch_ok) ==
    LET end_date == DateTime(now, timezone_str)
        start_date == MinusDays(end_date, days)
        label == date_range_dir(start_date, end_date)
        commit_raw_dir == [dir |-> label, sub |-> "raw/commits"]
        all_commits ==
            Concat([i \in 1..Len(repos) |->
                       extract_commit_data(repos[i], token, fetch_ok[repos[i]])])
        aggregated_commits == aggregate_commit_data(all_commits)
        commit_file == FilePath(label, "raw/commits", "aggregated_commits", "json")
        summary_file == FilePath(label, "raw/commits", "summary", "json")
        summary == [total_commits |-> Len(all_commits),
                    aggregated_commits |-> Len(aggregated_commits),
                    repositories_count |-> Len(repos),
                    period |-> [start |-> isoformat(DateOf(start_date)),
                                end |-> isoformat(DateOf(end_date)),
                                days |-> days],
                    repositories |-> repos]
    IN IF repos = <<>>
       THEN [ok |-> FALSE, label |-> label, start_date |-> DateOf(start_date),
             end_date |-> DateOf(end_date), tree |-> t, mkdirs |-> {}, written |-> {},
             aggregated |-> <<>>, fetches |-> 0]
       ELSE IF all_commits # <<>>
       THEN [ok |-> TRUE, label |-> label, start_date |-> DateOf(start_date),
             end_date |-> DateOf(end_date),
             aggregated |-> aggregated_commits, commit_file |-> commit_file,
             fetches |-> Len(repos),
             tree |-> WriteFile(WriteFile(t, commit_file, JsonList(aggregated_commits)),
                                summary_file, JsonList(<<summary>>)),
             mkdirs |-> {commit_raw_dir},
             written |-> {commit_file, summary_file}]
       ELSE [ok |-> FALSE, label |-> label, start_date |-> DateOf(start_date),
             end_date |-> DateOf(end_date), tree |-> t,
             mkdirs |-> {commit_raw_dir}, written |-> {},
             aggregated |-> <<>>, fetches |-> IF token THEN Len(repos) ELSE 0]

----------------------------------------------------------------------------
(* github_report.py: format_item, generate_markdown, generate_markdown_from_file *)

\* `sub in s`
Contains(s, sub) ==
    \E i \in 1..(Len(s) - Len(sub) + 1) : SubSeq(s, i, i + Len(sub) - 1) = sub

\* s.split("/")
RECURSIVE SplitSlash(_, _)
SplitSlash(s, part) ==
    IF s = "" THEN <<part>>
    ELSE IF SubSeq(s, 1, 1) = "/" THEN <<part>> \o SplitSlash(SubSeq(s, 2, Len(s)), "")
    ELSE SplitSlash(SubSeq(s, 2, Len(s)), part \o SubSeq(s, 1, 1))

\* a pathlib.Path: absolute or relative, and its segments
PathOf(abs, segs) == [abs |-> abs, segs |-> segs]

\* Path.parent: the parent of "/" is "/", the parent of "." is "."
PathParent(p) ==
    IF p.segs = <<>> THEN p ELSE [p EXCEPT !.segs = SubSeq(p.segs, 1, Len(p.segs) - 1)]

\* Path.name: "" for "/" and for "."
PathName(p) == IF p.segs = <<>> THEN "" ELSE p.segs[Len(p.segs)]

\* str(path) == '/'
IsRoot(p) == p.abs /\ p.segs = <<>>

\* path / name
PathJoin(p, names) == [p EXCEPT !.segs = @ \o names]

\* while base_path.name != date_range_dir and str(base_path) != '/':
\*     base_path = base_path.parent
\* The loop never ends once base_path is "." (a relative path): "." is its own
\* parent and is never "/".
RECURSIVE WalkUp(_, _)
WalkUp(base_path, name) ==
    IF PathName(base_path) = name \/ IsRoot(base_path)
    THEN [ends |-> TRUE, base_path |-> base_path]
    ELSE IF base_path.segs = <<>>
    THEN [ends |-> FALSE, base_path |-> base_path]
    ELSE WalkUp(PathParent(base_path), name)

\* the repository of the first item's url: "/".join(url.split("/")[3:5])
RepoOfItems(items) ==
    IF "url" \in DOMAIN items[1] /\ Contains(items[1].url, "github.com")
    THEN LET parts == SplitSlash(items[1].url, "")
         IN IF Len(parts) >= 5 THEN parts[4] \o "/" \o parts[5] ELSE "unknown-repo"
    ELSE "unknown-repo"

\* repo.split("/")[1] if "/" in repo else repo
RepoNameOf(repo) == IF Contains(repo, "/") THEN SplitSlash(repo, "")[2] ELSE repo

\* the values of updatedAt that occur, in ascending string order
UpdatedOrder == <<"", "2025-05-03T00:00:00Z", "2025-05-04T00:00:00Z",
                  "2025-05-05T00:00:00Z", "2025-05-06T00:00:00Z">>

\* key=lambda x: x.get("updatedAt", "")
UpdatedRank(item) ==
    CHOOSE k \in 1..Len(UpdatedOrder) : UpdatedOrder[k] = Get(item, "updatedAt", "")

\* sorted(items, key=..., reverse=True): descending, items with equal keys
\* keep their order
RECURSIVE InsertDesc(_, _)
InsertDesc(sorted, item) ==
    IF sorted = <<>> THEN <<item>>
    ELSE IF UpdatedRank(Head(sorted)) >= UpdatedRank(item)
    THEN <<Head(sorted)>> \o InsertDesc(Tail(sorted), item)
    ELSE <<item>> \o sorted

\* a variant that keeps the input order
Unsorted(items) == items

RECURSIVE SortedByUpdated(_)
SortedByUpdated(items) ==
    IF items = <<>> THEN <<>>
    ELSE InsertDesc(SortedByUpdated(SubSeq(items, 1, Len(items) - 1)), items[Len(items)])

\* a variant that tells a PR by its merge date
ItemTypeByMergedAt(item) == IF "mergedAt" \in DOMAIN item THEN "PR" ELSE "Issue"

\* item_type = "PR" if "mergeable" in item else "Issue"
ItemType(item) == IF "mergeable" \in DOMAIN item THEN "PR" ELSE "Issue"

\* dt.strftime("%Y-%m-%d") of a timestamp, "" when there is none
DateText(at) ==
    IF at = "" THEN "" ELSE IF Len(at) >= 10 THEN SubSeq(at, 1, 10) ELSE at

\* the number of characters of the body that the preview keeps
PreviewLimit == 200

\* a variant that cuts a body of exactly PreviewLimit characters too
body_preview_at_limit(body) ==
    IF Len(body) >= PreviewLimit THEN SubSeq(body, 1, PreviewLimit) \o "..." ELSE body

\* body_preview = body[:200] + "..." if len(body) > 200 else body
body_preview(body) ==
    IF Len(body) > PreviewLimit THEN SubSeq(body, 1, PreviewLimit) \o "..." ELSE body

\* format_item: the heading line and the fields below it; the preview
\* section is there only for a non-empty body
format_item(item) ==
    [item_type |-> ItemType(item),
     number |-> Get(item, "number", 0),
     title |-> Get(item, "title", ""),
     state |-> Get(item, "state", "unknown"),
     updated_date |-> DateText(Get(item, "updatedAt", "")),
     url |-> Get(item, "url", ""),
     has_preview |-> Get(item, "body", "") # "",
     body_preview |-> IF Get(item, "body", "") # "" THEN body_preview(item.body) ELSE "",
     merged |-> ItemType(item) = "PR" /\ Get(item, "mergedAt", "") # ""]

\* the lines of the report of generate_markdown
generate_markdown(items, repo, start_date, end_date) ==
    LET issues == SelectSeq(items, LAMBDA item : "mergeable" \notin DOMAIN item)
        prs == SelectSeq(items, LAMBDA item : "mergeable" \in DOMAIN item)
        open_items == SelectSeq(items, LAMBDA item : Get(item, "state", "") = "open")
        closed_items == SelectSeq(items, LAMBDA item : Get(item, "state", "") = "closed")
        merged_prs == SelectSeq(prs, LAMBDA item : Get(item, "state", "") = "merged")
        sorted_items == SortedByUpdated(items)
    IN [repo_name |-> RepoNameOf(repo), start |-> start_date, end |-> end_date,
        no_activity |-> items = <<>>,
        total |-> Len(items), issues |-> Len(issues), prs |-> Len(prs),
        open |-> Len(open_items), closed |-> Len(closed_items),
        merged |-> Len(merged_prs),
        details |-> [i \in 1..Len(sorted_items) |-> format_item(sorted_items[i])]]

\* generate_markdown_from_file(json_file) with no output_file, on the items
\* the file holds, at clock value now
generate_markdown_from_file(items, json_file, timezone_str, now) ==
    LET repo == RepoOfItems(items)
        end_date == DateTime(now, timezone_str)
        start_date == MinusDays(end_date, 7)
        parent3 == PathParent(PathParent(PathParent(json_file)))
        date_range_dir_ ==
            IF Contains(PathName(parent3), "_to_") THEN PathName(parent3)
            ELSE date_range_dir(start_date, end_date)
        walk == WalkUp(PathParent(json_file), date_range_dir_)
        base_path == IF IsRoot(walk.base_path) THEN parent3 ELSE PathParent(walk.base_path)
        markdown_dir == PathJoin(base_path, <<date_range_dir_, "markdown", "github">>)
        output_file == PathJoin(markdown_dir, <<"github_report-" \o RepoNameOf(repo) \o ".md">>)
    IN IF items = <<>> THEN [status |-> "none"]
       ELSE IF ~walk.ends THEN [status |-> "hang"]
       ELSE [status |-> "written", output_file |-> output_file, mkdir |-> markdown_dir,
             report |-> generate_markdown(items, repo, isoformat(DateOf(start_date)),
                                          isoformat(DateOf(end_date)))]

----------------------------------------------------------------------------
(* github_report.py: main, with --repo given and no --json-file, no --output *)

\* --repo: one repository or a comma-separated list
RepoLists == {<<RepoOf("x")>>, <<RepoOf("x"), RepoOf("y")>>}

\* --timezone
Timezones == {"UTC", "Asia/Tokyo"}

\* --last-days (default)
LastDays == 7

\* --last-days, type=int: a negative number, zero, the default
LastDaysArgs == {-1, 0, LastDays}

\* the days default of collect_all_commit_data
CommitDays == 30

\* write_text_file(markdown_report, output_file) of generate_markdown
MarkdownFile(items, repo, start_date, end_date) ==
    [top |-> "text", val |-> <<generate_markdown(items, repo, start_date, end_date)>>]

\* ", ".join(repo_names)
RECURSIVE combined_repo_name(_)
combined_repo_name(repos) ==
    IF repos = <<>> THEN ""
    ELSE IF Len(repos) = 1 THEN repo_name(repos[1])
    ELSE repo_name(repos[1]) \o ", " \o combined_repo_name(Tail(repos))

\* markdown_dir / f"github_report-{repo_name}.md"
MarkdownPath(label, name) == FilePath(label, "markdown/github", "github_report-" \o name, "md")

\* one entry of the log of collector calls
LogEntry(fn, target, call, t) ==
    [fn |-> fn, target |-> target,
     start_date |-> call.start_date, end_date |-> call.end_date,
     label |-> call.label, written |-> call.written,
     after |-> {p \in DOMAIN t : p.dir = call.label /\ p.sub \in {"raw/github", "raw/commits"}}]

\* the window of a call that returned before it computed its label
NoCall(end_date, days) ==
    [start_date |-> DateOf(MinusDays(end_date, days)), end_date |-> DateOf(end_date),
     label |-> date_range_dir(MinusDays(end_date, days), end_date), written |-> {}]

\* the clock advances by six hours
Tick ==
    /\ clock < Now0 + 12 + 6 * MaxTicks
    /\ clock' = clock + 6
    /\ UNCHANGED <<hasToken, tree, dirs, aggVars, exportVars, runVars, auxVars>>

\* `gh auth login` / the token expires
SetToken ==
    /\ hasToken' = ~hasToken
    /\ UNCHANGED <<clock, tree, dirs, aggVars, exportVars, runVars, auxVars>>

\* main up to the loop over the repositories: the arguments are parsed and
\* date_range_dir is computed from datetime.now(tz)
MainStart ==
    /\ mainPc = "idle"
    /\ Len(runLog) < MaxRuns
    /\ \E repos \in RepoLists, markdown \in BOOLEAN, timezone_str \in Timezones :
         LET end_date == DateTime(clock, timezone_str)
             start_date == MinusDays(end_date, LastDays)
         IN /\ mainArgs' = [repos |-> repos, markdown |-> markdown,
                            timezone_str |-> timezone_str,
                            start |-> isoformat(DateOf(start_date)),
                            end |-> isoformat(DateOf(end_date))]
            /\ mainLabel' = date_range_dir(start_date, end_date)
            /\ mainTodo' = repos
    /\ mainItems' = <<>>
    /\ mainWrites' = {}
    /\ mainPc' = "loop"
    /\ UNCHANGED <<envVars, aggVars, exportVars, runLog, auxVars>>

\* one iteration of `for repo in repos`: extract_github_data, then the
\* repository's Markdown report when --markdown is given
MainExtract ==
    /\ mainPc = "loop"
    /\ mainTodo # <<>>
    /\ LET repo == Head(mainTodo)
           call == extract_github_data(tree, repo, LastDays, TRUE, mainArgs.timezone_str,
                                       clock, hasToken, TRUE, TRUE)
       IN IF ~call.ok
          THEN /\ runLog' = Append(runLog,
                      LogEntry("extract_github_data", <<repo>>,
                               NoCall(DateTime(clock, mainArgs.timezone_str), LastDays), tree))
               /\ UNCHANGED <<tree, dirs, mainItems, mainWrites>>
          ELSE LET items == IF mainArgs.markdown THEN read_json_file(call.tree, call.json_file)
                            ELSE <<>>
                   output_file == MarkdownPath(mainLabel, repo_name(repo))
                   report == MarkdownFile(items, repo.owner \o "/" \o repo.name,
                                          call.result.period.start,
                                          call.result.period.end)
                   raw == {[kind |-> "raw", label |-> call.label, path |-> p] : p \in call.written}
               IN /\ tree' = IF mainArgs.markdown
                             THEN WriteFile(call.tree, output_file, report)
                             ELSE call.tree
                  /\ dirs' = dirs \cup call.mkdirs
                                  \cup (IF mainArgs.markdown THEN {Parent(output_file)} ELSE {})
                  /\ mainItems' = mainItems \o items
                  /\ mainWrites' = mainWrites \cup raw
                        \cup (IF mainArgs.markdown
                              THEN {[kind |-> "markdown", label |-> mainLabel, path |-> output_file]}
                              ELSE {})
                  /\ runLog' = Append(runLog,
                        LogEntry("extract_github_data", <<repo>>, call, call.tree))
    /\ mainTodo' = Tail(mainTodo)
    /\ UNCHANGED <<clock, hasToken, mainPc, mainArgs, mainLabel, aggVars, exportVars, auxVars>>

\* after the loop: the combined report of a multi-repository run, then return 0
MainFinish ==
    /\ mainPc = "loop"
    /\ mainTodo = <<>>
    /\ LET combined_output == MarkdownPath(mainLabel, "combined")
       IN IF Len(mainArgs.repos) > 1 /\ mainItems # <<>> /\ mainArgs.markdown
          THEN /\ tree' = WriteFile(tree, combined_output,
                                    MarkdownFile(mainItems, combined_repo_name(mainArgs.repos),
                                                 mainArgs.start,
                                                 mainArgs.end))
               /\ dirs' = dirs \cup {Parent(combined_output)}
               /\ mainWrites' = mainWrites \cup
                     {[kind |-> "markdown", label |-> mainLabel, path |-> combined_output]}
          ELSE UNCHANGED <<tree, dirs, mainWrites>>
    /\ mainPc' = "idle"
    /\ UNCHANGED <<clock, hasToken, mainArgs, mainLabel, mainTodo, mainItems, runLog,
                   aggVars, exportVars, auxVars>>

\* one call of collect_all_commit_data with repos given
CollectAllCommitData ==
    /\ mainPc = "idle"
    /\ Len(runLog) < MaxRuns
    /\ \E repos \in RepoLists :
       \E fetch_ok \in [Range(repos) -> BOOLEAN] :
         LET call == collect_all_commit_data(tree, repos, CommitDays, "UTC", clock,
                                             hasToken, fetch_ok)
         IN /\ tree' = call.tree
            /\ dirs' = dirs \cup call.mkdirs
            /\ runLog' = Append(runLog,
                  LogEntry("collect_all_commit_data", repos, call, call.tree))
    /\ UNCHANGED <<clock, hasToken, mainPc, mainArgs, mainLabel, mainTodo, mainItems,
                   mainWrites, aggVars, exportVars, auxVars>>

----------------------------------------------------------------------------
(* SpecMarkdown: generate_markdown_from_file and generate_markdown applied to
   bounded raw file paths and item lists. *)

\* directory names a raw file can lie under
Segments == {"data", "2025-04-24_to_2025-05-01", "raw", "github"}

\* depth of the raw file below the root or the working directory
MaxDepth == 4

JsonPaths == {PathOf(abs, dir \o <<"x.json">>) : abs \in BOOLEAN, dir \in SeqsUpTo(Segments, MaxDepth)}

\* items a raw file or an item list can hold
ReportItems ==
    {Issue(1, "crash", "OPEN", "2025-05-04T00:00:00Z"),
     Issue(2, "typo", "closed", "2025-05-03T00:00:00Z"),
     PullRequest(3, "fix crash", "MERGED", "2025-05-06T00:00:00Z"),
     [number |-> 4, title |-> "draft", state |-> "open",
      mergedAt |-> "2025-05-03T00:00:00Z"],
     [number |-> 5, title |-> "bump", state |-> "merged", mergeable |-> "UNKNOWN",
      updatedAt |-> "2025-05-04T00:00:00Z"]}

MaxItems == 3

\* n characters of filling
RECURSIVE Filler(_)
Filler(n) ==
    IF n = 0 THEN ""
    ELSE IF n % 2 = 0 THEN LET half == Filler(n \div 2) IN half \o half
    ELSE Filler(n - 1) \o "a"

\* bodies around the length at which the preview is cut
Bodies ==
    {"", "short", Filler(PreviewLimit - 1) \o "b", Filler(PreviewLimit - 1) \o "bc",
     Filler(PreviewLimit - 1) \o "bcdefgh"}

\* an item with its body field
WithBody(item, body) ==
    [k \in DOMAIN item \cup {"body"} |-> IF k = "body" THEN body ELSE item[k]]

\* the items format_item is given: with no body, and with each of the bodies
FormatItems == ReportItems \cup {WithBody(item, body) : item \in ReportItems, body \in Bodies}
MaxAiRuns == 2

\* one call generate_markdown_from_file(json_file), json_file an existing file
GenerateMarkdownFromFile ==
    /\ mdPc = "idle"
    /\ \E json_file \in JsonPaths, timezone_str \in Timezones,
          items \in {<<>>, HostIssues(RepoOf("x")) \o HostPRs(RepoOf("x"))} :
         /\ mdIn' = [json_file |-> json_file, timezone_str |-> timezone_str,
                     items |-> items, now |-> clock]
         /\ mdOut' = generate_markdown_from_file(items, json_file, timezone_str, clock)
    /\ mdPc' = "from_file"
    /\ UNCHANGED <<aggVars, envVars, exportVars, runVars, callVars, sheetVars, cliVars>>

\* one call format_item(item)
FormatItem ==
    /\ mdPc = "idle"
    /\ \E item \in FormatItems :
         /\ mdIn' = [item |-> item]
         /\ mdOut' = format_item(item)
    /\ mdPc' = "item"
    /\ UNCHANGED <<aggVars, envVars, exportVars, runVars, callVars, sheetVars, cliVars>>

\* one call generate_markdown(items, repo, start_date, end_date)
GenerateMarkdown ==
    /\ mdPc = "idle"
    /\ \E items \in SeqsUpTo(ReportItems, MaxItems) :
         /\ mdIn' = [items |-> items]
         /\ mdOut' = generate_markdown(items, "team-mirai-volunteer/x",
                                       isoformat(DateOf(MinusDays(DateTime(clock, "UTC"), LastDays))),
                                       isoformat(DateOf(DateTime(clock, "UTC"))))
    /\ mdPc' = "report"
    /\ UNCHANGED <<aggVars, envVars, exportVars, runVars, callVars, sheetVars, cliVars>>

----------------------------------------------------------------------------
(* SpecCalls: calls of extract_github_data and collect_all_commit_data, one
   after the other at one clock value, with and without a token and with gh
   calls that fail. *)

\* one call extract_github_data(repo, include_prs=...)
CallExtractGithubData ==
    /\ callCount < MaxCalls
    /\ \E repo \in HostRepos, include_prs \in BOOLEAN, issue_ok \in BOOLEAN, pr_ok \in BOOLEAN :
         LET call == extract_github_data(tree, repo, LastDays, include_prs, "UTC", clock,
                                         hasToken, issue_ok, pr_ok)
         IN /\ tree' = call.tree
            /\ dirs' = dirs \cup call.mkdirs
            /\ lastCall' = [fn |-> "extract_github_data", repo |-> repo,
                            include_prs |-> include_prs, token |-> hasToken,
                            issue_ok |-> issue_ok, pr_ok |-> pr_ok, ret |-> call]
    /\ callCount' = callCount + 1
    /\ UNCHANGED <<clock, hasToken, aggVars, exportVars, runVars, mdVars, sheetVars, cliVars>>

\* one call collect_all_commit_data(repos)
CallCollectAllCommitData ==
    /\ callCount < MaxCalls
    /\ \E repos \in RepoLists :
       \E fetch_ok \in [Range(repos) -> BOOLEAN] :
         LET call == collect_all_commit_data(tree, repos, CommitDays, "UTC", clock,
                                             hasToken, fetch_ok)
         IN /\ tree' = call.tree
            /\ dirs' = dirs \cup call.mkdirs
            /\ lastCall' = [fn |-> "collect_all_commit_data", repos |-> repos,
                            token |-> hasToken, fetch_ok |-> fetch_ok, ret |-> call]
    /\ callCount' = callCount + 1
    /\ UNCHANGED <<clock, hasToken, aggVars, exportVars, runVars, mdVars, sheetVars, cliVars>>

----------------------------------------------------------------------------
(* sheets_client.py: SheetsClient.write_commit_data and clear_sheet;
   commit_stats.py: upload_to_sheets *)

\* headers (the four labels, written here in ASCII)
Headers == <<"repository", "author", "date", "commits">>

\* row = [repository, author, date, str(count)]
CommitRow(commit) ==
    <<Get(commit, "repository", ""), Get(commit, "author", ""), Get(commit, "date", ""),
      ToString(Get(commit, "count", 1))>>

\* rows_to_add
RowsToAdd(commit_data) == [i \in 1..Len(commit_data) |-> CommitRow(commit_data[i])]

\* the gspread calls of one upload that can raise: opening the spreadsheet,
\* worksheet.clear() of clear_sheet, and worksheet.clear(), append_row and
\* append_rows of write_commit_data
ApiFailures == {"none", "open", "clear_sheet", "clear", "append_row", "append_rows"}

\* a variant that rewrites the header without clearing the worksheet
HeaderRewrittenInPlace(rows) == <<Headers>> \o (IF rows = <<>> THEN <<>> ELSE Tail(rows))

\* worksheet.clear(); worksheet.append_row(headers)
HeaderRewritten(rows) == <<Headers>>

\* write_commit_data(commit_data) on the worksheet ws, where the gspread call
\* named by fails raises: the worksheet afterwards and whether it raised
write_commit_data(ws, commit_data, fails) ==
    IF commit_data = <<>> THEN [ws |-> ws, raised |-> FALSE]
    ELSE IF fails = "open" THEN [ws |-> ws, raised |-> TRUE]
    ELSE
      LET existing_data == IF ws.exists THEN ws.rows ELSE <<>>
          rewrite == existing_data = <<>> \/ existing_data[1] # Headers
          rows_to_add == RowsToAdd(commit_data)
      IN IF rewrite /\ fails = "clear"
         THEN [ws |-> [exists |-> TRUE, rows |-> existing_data], raised |-> TRUE]
         ELSE IF rewrite /\ fails = "append_row"
         THEN [ws |-> [exists |-> TRUE, rows |-> <<>>], raised |-> TRUE]
         ELSE LET with_header == IF rewrite THEN HeaderRewritten(existing_data)
                                 ELSE existing_data
              IN IF fails = "append_rows"
                 THEN [ws |-> [exists |-> TRUE, rows |-> with_header], raised |-> TRUE]
                 ELSE [ws |-> [exists |-> TRUE, rows |-> with_header \o rows_to_add],
                       raised |-> FALSE]

\* clear_sheet(): an error of get_spreadsheet propagates, an error of
\* worksheet() or worksheet.clear() is printed and swallowed
clear_sheet(ws, fails) ==
    IF fails = "open" THEN [ws |-> ws, raised |-> TRUE]
    ELSE IF ~ws.exists \/ fails = "clear_sheet" THEN [ws |-> ws, raised |-> FALSE]
    ELSE [ws |-> [exists |-> TRUE, rows |-> <<>>], raised |-> FALSE]

\* upload_to_sheets(commit_data, config, clear_existing): credentials says
\* whether SheetsClient(config) authenticates
upload_to_sheets(ws, commit_data, clear_existing, credentials, fails) ==
    IF ~credentials THEN [ws |-> ws, success |-> FALSE]
    ELSE LET cleared == IF clear_existing THEN clear_sheet(ws, fails)
                        ELSE [ws |-> ws, raised |-> FALSE]
         IN IF cleared.raised THEN [ws |-> cleared.ws, success |-> FALSE]
            ELSE LET written == write_commit_data(cleared.ws, commit_data, fails)
                 IN [ws |-> written.ws, success |-> ~written.raised]

\* aggregate lists handed to the sheet
UploadLists ==
    {<<>>,
     <<[repository |-> "x", author |-> "a", date |-> "2025-05-01", count |-> 2]>>,
     <<[repository |-> "x", author |-> "b", date |-> "2025-05-02", count |-> 1],
       [repository |-> "x", author |-> "a", date |-> "2025-05-01", count |-> 2]>>}

\* the states the worksheet can be found in: missing, empty, header only,
\* header and a row, rows of someone else, a header of five columns
InitialSheets ==
    {[exists |-> FALSE, rows |-> <<>>],
     [exists |-> TRUE, rows |-> <<>>],
     [exists |-> TRUE, rows |-> <<Headers>>],
     [exists |-> TRUE, rows |-> <<Headers, <<"y", "c", "2025-04-30", "4">>>>],
     [exists |-> TRUE, rows |-> <<<<"name", "total">>, <<"y", "4">>>>],
     [exists |-> TRUE, rows |-> <<Headers \o <<"note">>, <<"y", "c", "2025-04-30", "4", "">>>>]}

\* one call SheetsClient.write_commit_data(commit_data)
WriteCommitData ==
    /\ uploads < MaxUploads
    /\ \E commit_data \in UploadLists, fails \in ApiFailures \ {"clear_sheet"} :
         LET call == write_commit_data(worksheet, commit_data, fails)
         IN /\ worksheet' = call.ws
            /\ lastUpload' = [fn |-> "write_commit_data", commit_data |-> commit_data,
                              fails |-> fails, before |-> worksheet,
                              raised |-> call.raised]
    /\ uploads' = uploads + 1
    /\ UNCHANGED <<aggVars, envVars, exportVars, runVars, mdVars, callVars, cliVars>>

\* one call upload_to_sheets(commit_data, config, clear_existing)
UploadToSheets ==
    /\ uploads < MaxUploads
    /\ \E commit_data \in UploadLists, clear_existing \in BOOLEAN, credentials \in BOOLEAN,
          fails \in ApiFailures :
         LET call == upload_to_sheets(worksheet, commit_data, clear_existing, credentials, fails)
         IN /\ worksheet' = call.ws
            /\ lastUpload' = [fn |-> "upload_to_sheets", commit_data |-> commit_data,
                              clear_existing |-> clear_existing,
                              credentials |-> credentials, fails |-> fails,
                              before |-> worksheet, success |-> call.success]
    /\ uploads' = uploads + 1
    /\ UNCHANGED <<aggVars, envVars, exportVars, runVars, mdVars, callVars, cliVars>>

----------------------------------------------------------------------------
(* The CLI entry points: github_report.main, commit_collector.__main__.main,
   call_openai_api.main *)

\* the parameters of collect_all_commit_data
CollectParams == {"repos", "days", "timezone_str", "output_dir"}

\* the keyword arguments main passes to collect_all_commit_data
CollectKeywordsOfMain == {"repos", "since_date", "timezone_str", "output_dir"}

\* the loop of github_report.main over repos: the tree, the directories, the
\* number of `gh issue list` / `gh pr list` calls, and all_items
RECURSIVE MainLoop(_, _, _)
MainLoop(acc, todo, a) ==
    IF todo = <<>> THEN acc
    ELSE LET repo == Head(todo)
             call == extract_github_data(acc.tree, repo, a.last_days, a.include_prs,
                                         a.timezone_str, a.now, a.token, a.issue_ok, TRUE)
             items == read_json_file(call.tree, call.json_file)
             output_file == MarkdownPath(a.label, repo_name(repo))
         IN IF ~call.ok THEN MainLoop(acc, Tail(todo), a)
            ELSE IF ~a.markdown
            THEN MainLoop([acc EXCEPT !.tree = call.tree,
                                      !.dirs = @ \cup call.mkdirs,
                                      !.network = @ + call.fetches],
                          Tail(todo), a)
            ELSE MainLoop([tree |-> WriteFile(call.tree, output_file,
                                       MarkdownFile(items, repo.owner \o "/" \o repo.name,
                                                    call.result.period.start,
                                                    call.result.period.end)),
                           dirs |-> acc.dirs \cup call.mkdirs \cup {Parent(output_file)},
                           network |-> acc.network + call.fetches,
                           all_items |-> acc.all_items \o items],
                          Tail(todo), a)

\* github_report.main with --repo given: always `return 0` after the loop
github_report_main(t, d, a) ==
    LET end_date == DateTime(a.now, a.timezone_str)
        start_date == MinusDays(end_date, a.last_days)
        label == date_range_dir(start_date, end_date)
        loop == MainLoop([tree |-> t, dirs |-> d, network |-> 0, all_items |-> <<>>],
                         a.repos, [a EXCEPT !.label = label])
        combined_output == MarkdownPath(label, "combined")
        combined == Len(a.repos) > 1 /\ loop.all_items # <<>> /\ a.markdown
    IN [exit |-> 0, raised |-> FALSE, network |-> loop.network,
        window |-> [start |-> start_date, end |-> end_date],
        tree |-> IF combined
                 THEN WriteFile(loop.tree, combined_output,
                                MarkdownFile(loop.all_items, combined_repo_name(a.repos),
                                             isoformat(DateOf(start_date)),
                                             isoformat(DateOf(end_date))))
                 ELSE loop.tree,
        dirs |-> IF combined THEN loop.dirs \cup {Parent(combined_output)} ELSE loop.dirs]

\* commit_collector main: collect_all_commit_data is called with the keyword
\* since_date, which is not one of its parameters, so the call raises
\* TypeError before its body runs; the interpreter then exits with status 1
commit_collector_main(t, d, a) ==
    IF ~(CollectKeywordsOfMain \subseteq CollectParams)
    THEN [exit |-> 1, raised |-> TRUE, network |-> 0, tree |-> t, dirs |-> d]
    ELSE LET repos == IF a.repos = <<>> THEN a.listed ELSE a.repos
             listing == IF a.repos = <<>> THEN 1 ELSE 0
             call == collect_all_commit_data(t, repos, CommitDays, a.timezone_str, a.now,
                                             a.token, [r \in Range(repos) |-> TRUE])
             \* main passes its Config, which holds no google.credentials_file,
             \* so SheetsClient(config) does not authenticate
             upload == upload_to_sheets([exists |-> FALSE, rows |-> <<>>], call.aggregated,
                                        a.clear_sheet, FALSE, "none")
         IN [exit |-> IF call.aggregated = <<>> THEN 1
                      ELSE IF ~a.no_upload /\ ~upload.success THEN 1 ELSE 0,
             raised |-> FALSE,
             network |-> listing + call.fetches,
             tree |-> call.tree, dirs |-> d \cup call.mkdirs]

\* --output-dir: not given, or a directory of its own
OutputDirs == {"", "reports"}

\* what client.chat.completions.create can do: raise, or return a completion
\* whose text is empty, blank or a report
ApiOutcomes ==
    {[raised |-> TRUE, content |-> ""], [raised |-> FALSE, content |-> ""],
     [raised |-> FALSE, content |-> " "], [raised |-> FALSE, content |-> "# report"]}

\* call_openai_api: the completion's text, "" when the call raised
call_openai_api(outcome) == IF outcome.raised THEN "" ELSE outcome.content

\* a variant that takes every response for a report
ResponseAlwaysAccepted(response) == FALSE

\* `if not response`
ResponseIsEmpty(response) == response = ""

\* a text file, held as its one string
TextFile(text) == [top |-> "text", val |-> <<text>>]

NoPath == FilePath("", "", "", "")

\* data_path.glob(f"*/raw/github/{repo_name}.json")
github_data_files(t, repo) ==
    {p \in DOMAIN t : p.dir # "" /\ p.sub = "raw/github" /\ p.stem = repo_name(repo)
                      /\ p.ext = "json"}

\* Path(output_dir) / f"ai_report-{repo_name}.md", output_dir being the
\* ai_reports directory beside raw/ unless --output-dir names another one
AiReportPath(latest_file, output_dir, repo) ==
    IF output_dir = ""
    THEN FilePath(latest_file.dir, "ai_reports", "ai_report-" \o repo_name(repo), "md")
    ELSE FilePath("", output_dir, "ai_report-" \o repo_name(repo), "md")

\* process_github_data: None (NoPath) when the prompt file or the raw data
\* is missing or empty, or when the response is empty; otherwise the
\* response is written to the report file.  latest_file is the match with
\* the greatest mtime, any of the matches here
process_github_data(t, repo, prompt_file, latest_file, output_dir, outcome) ==
    LET response == call_openai_api(outcome)
        output_file == AiReportPath(latest_file, output_dir, repo)
        failed(n) == [result |-> NoPath, tree |-> t, mkdirs |-> {}, network |-> n,
                      response |-> IF n = 0 THEN "" ELSE response]
    IN IF ~prompt_file THEN failed(0)
       ELSE IF github_data_files(t, repo) = {} THEN failed(0)
       ELSE IF read_json_file(t, latest_file) = <<>> THEN failed(0)
       ELSE IF ResponseIsEmpty(response) THEN failed(1)
       ELSE [result |-> output_file, tree |-> WriteFile(t, output_file, TextFile(response)),
             mkdirs |-> {Parent(output_file)}, network |-> 1, response |-> response]

\* call_openai_api.main: no subcommand or no API key returns 1 before
\* process_github_data; otherwise 0 when process_github_data returns a path
call_openai_api_main(t, d, a) ==
    IF ~a.command \/ ~a.api_key
    THEN [exit |-> 1, raised |-> FALSE, network |-> 0, tree |-> t, dirs |-> d,
          result |-> NoPath, response |-> ""]
    ELSE LET run == process_github_data(t, a.repo, a.prompt_file, a.latest_file,
                                        a.output_dir, a.outcome)
         IN [exit |-> IF run.result # NoPath THEN 0 ELSE 1, raised |-> FALSE,
             network |-> run.network, tree |-> run.tree, dirs |-> d \cup run.mkdirs,
             result |-> run.result, response |-> run.response]

\* python -m src.github_logger.github_report --repo ... [--markdown] [--no-prs]
RunGithubReport ==
    /\ cliRun.entry = "none"
    /\ \E repos \in RepoLists, markdown \in BOOLEAN, include_prs \in BOOLEAN,
          timezone_str \in Timezones, issue_ok \in BOOLEAN,
          last_days \in LastDaysArgs :
         LET a == [repos |-> repos, markdown |-> markdown, include_prs |-> include_prs,
                   timezone_str |-> timezone_str, token |-> hasToken, issue_ok |-> issue_ok,
                   now |-> clock, label |-> "", last_days |-> last_days]
             run == github_report_main(tree, dirs, a)
         IN /\ cliRun' = [entry |-> "github_report", credential |-> hasToken, args |-> a,
                          exit |-> run.exit, raised |-> run.raised, network |-> run.network,
                          window |-> run.window]
            /\ tree' = run.tree
            /\ dirs' = run.dirs
    /\ UNCHANGED <<clock, hasToken, aggVars, exportVars, runVars, mdVars, callVars, sheetVars, cfgVars>>

\* python -m src.commit_collector [--repos ...] [--no-upload] [--clear-sheet]
RunCommitCollector ==
    /\ cliRun.entry = "none"
    /\ \E repos \in RepoLists \cup {<<>>}, listed \in RepoLists \cup {<<>>},
          no_upload \in BOOLEAN, clear_sheet_ \in BOOLEAN :
         LET a == [repos |-> repos, listed |-> listed, no_upload |-> no_upload,
                   clear_sheet |-> clear_sheet_, timezone_str |-> "UTC", token |-> hasToken,
                   now |-> clock]
             run == commit_collector_main(tree, dirs, a)
         IN /\ cliRun' = [entry |-> "commit_collector", credential |-> hasToken, args |-> a,
                          exit |-> run.exit, raised |-> run.raised, network |-> run.network]
            /\ tree' = run.tree
            /\ dirs' = run.dirs
    /\ UNCHANGED <<clock, hasToken, aggVars, exportVars, runVars, mdVars, callVars, sheetVars, cfgVars>>

\* python -m src.call_openai_api [github --repo ... --prompt-file ...]
RunCallOpenaiApi ==
    /\ \/ cliRun.entry = "none"
       \/ cliRun.entry = "call_openai_api" /\ cliRun.run < MaxAiRuns
    /\ \E command \in BOOLEAN, api_key \in BOOLEAN, prompt_file \in BOOLEAN,
          repo \in HostRepos, output_dir \in OutputDirs, outcome \in ApiOutcomes :
       \E latest_file \in (IF github_data_files(tree, repo) = {} THEN {NoPath}
                           ELSE github_data_files(tree, repo)) :
         LET a == [command |-> command, api_key |-> api_key, prompt_file |-> prompt_file,
                   repo |-> repo, output_dir |-> output_dir, latest_file |-> latest_file,
                   outcome |-> outcome]
             run == call_openai_api_main(tree, dirs, a)
         IN /\ cliRun' = [entry |-> "call_openai_api", credential |-> api_key, args |-> a,
                          exit |-> run.exit, raised |-> run.raised, network |-> run.network,
                          run |-> IF cliRun.entry = "none" THEN 1 ELSE cliRun.run + 1,
                          before |-> tree, after |-> run.tree, result |-> run.result,
                          response |-> run.response]
            /\ tree' = run.tree
            /\ dirs' = run.dirs
    /\ UNCHANGED <<clock, hasToken, aggVars, exportVars, runVars, mdVars, callVars, sheetVars, cfgVars>>

----------------------------------------------------------------------------
(* utils/config.py: Config.__init__ and Config.get, as the entry points use
   them: Config() at startup, Config(config_file=args.config) when --config
   is given. *)

\* os.getenv of a variable that is not set
None == "None"

\* the environment variables behind the six options; the two google names
\* are those of the messages of sheets_client.py
OptionEnv ==
    [github_token |-> "GITHUB_TOKEN", openai_api_key |-> "OPENAI_API_KEY",
     output_default_dir |-> "OUTPUT_DIR", output_timezone |-> "TIMEZONE",
     google_credentials_file |-> "GOOGLE_SHEETS_CREDENTIALS_FILE",
     google_spreadsheet_id |-> "GOOGLE_SHEETS_SPREADSHEET_ID"]

EnvNames == {OptionEnv[o] : o \in DOMAIN OptionEnv}

\* the dotted keys of the six options
OptionKey ==
    [github_token |-> "github.token", openai_api_key |-> "openai.api_key",
     output_default_dir |-> "output.default_dir", output_timezone |-> "output.timezone",
     google_credentials_file |-> "google.credentials_file",
     google_spreadsheet_id |-> "google.spreadsheet_id"]

\* a set of assignments NAME=value, the value telling where it was written
Settings(source, names) == [n \in names |-> source \o ":" \o n]

\* the sets of variables a source assigns
SettingSets ==
    {{}, {"TIMEZONE"}, {"OPENAI_API_KEY"}, {"GOOGLE_SHEETS_CREDENTIALS_FILE"}, EnvNames}

\* load_dotenv(path): override is left at its default False, so a variable
\* already in os.environ keeps its value and only the others are added
load_dotenv(file, env) ==
    [n \in DOMAIN env \cup DOMAIN file |-> IF n \in DOMAIN env THEN env[n] ELSE file[n]]

\* os.getenv(name, default)
getenv(env, name, default) == IF name \in DOMAIN env THEN env[name] ELSE default

\* the values of _config: a dict or a string
Dict(items) == [kind |-> "dict", items |-> items]
Str(s) == [kind |-> "str", val |-> s]

\* self._config
ConfigDict(env) ==
    Dict([github |-> Dict([token |-> Str(getenv(env, "GITHUB_TOKEN", None))]),
          openai |-> Dict([api_key |-> Str(getenv(env, "OPENAI_API_KEY", None))]),
          output |-> Dict([default_dir |-> Str(getenv(env, "OUTPUT_DIR", "./data")),
                           timezone |-> Str(getenv(env, "TIMEZONE", "UTC"))]),
          repositories |-> Dict([action_board |-> Str("team-mirai-volunteer/action-board"),
                                 fact_checker |-> Str("team-mirai-volunteer/fact-checker")])])

\* Config(config_file): the environment after load_dotenv, and _config
Config(file, env) ==
    LET loaded == load_dotenv(file, env)
    IN [environ |-> loaded, _config |-> ConfigDict(loaded)]

\* key.split(".")
RECURSIVE SplitDot(_, _)
SplitDot(s, part) ==
    IF s = "" THEN <<part>>
    ELSE IF SubSeq(s, 1, 1) = "." THEN <<part>> \o SplitDot(SubSeq(s, 2, Len(s)), "")
    ELSE SplitDot(SubSeq(s, 2, Len(s)), part \o SubSeq(s, 1, 1))

\* the loop of Config.get
RECURSIVE GetWalk(_, _, _)
GetWalk(value, keys, default) ==
    IF keys = <<>> THEN value
    ELSE IF value.kind = "dict" /\ keys[1] \in DOMAIN value.items
    THEN GetWalk(value.items[keys[1]], SubSeq(keys, 2, Len(keys)), default)
    ELSE default

\* Config.get(key, default)
ConfigGet(cfg, key, default) == GetWalk(cfg._config, SplitDot(key, ""), default)

\* SheetsClient._authenticate raises ValueError unless google.credentials_file
\* is set; get_spreadsheet likewise for google.spreadsheet_id
HasCredentialsFile(cfg) ==
    ConfigGet(cfg, "google.credentials_file", Str(None)) \notin {Str(None), Str("")}
HasSpreadsheetId(cfg) ==
    ConfigGet(cfg, "google.spreadsheet_id", Str(None)) \notin {Str(None), Str("")}

\* timezone_str = args.timezone or config.get("output.timezone", "UTC"), where
\* the default of --timezone was read from the Config() of startup
timezone_of_run(startup, cfg) ==
    LET args_timezone == ConfigGet(startup, "output.timezone", Str("UTC")).val
    IN IF args_timezone # "" THEN args_timezone
       ELSE ConfigGet(cfg, "output.timezone", Str("UTC")).val

\* the keys asked for: the six options, a section, and keys that do not exist
AskedKeys == {OptionKey[o] : o \in DOMAIN OptionKey} \cup {"output", "output.timezone.name"}

NoConfig == [environ |-> <<>>, _config |-> Dict(<<>>)]

\* config = Config() at the start of main: load_dotenv() reads ./.env
ConfigStartup ==
    /\ cfgPc = "start"
    /\ LET c == Config(cfgFiles.dotenv, environ)
       IN /\ config' = c
          /\ environ' = c.environ
          /\ cfgCalls' = Append(cfgCalls, [config_file |-> ".env", before |-> environ,
                                           timezone_str |-> timezone_of_run(c, c)])
    /\ cfgPc' = "loaded"
    /\ UNCHANGED <<cfgFiles, lastGet, cliRun>>
    /\ UNCHANGED <<aggVars, envVars, exportVars, runVars, mdVars, callVars, sheetVars>>

\* config = Config(config_file=args.config)
ConfigOverride ==
    /\ cfgPc = "loaded"
    /\ LET c == Config(cfgFiles.override, environ)
       IN /\ config' = c
          /\ environ' = c.environ
          /\ cfgCalls' = Append(cfgCalls, [config_file |-> "override", before |-> environ,
                                           timezone_str |-> timezone_of_run(config, c)])
    /\ cfgPc' = "overridden"
    /\ UNCHANGED <<cfgFiles, lastGet, cliRun>>
    /\ UNCHANGED <<aggVars, envVars, exportVars, runVars, mdVars, callVars, sheetVars>>

\* config.get(key) and config.get(key, default), SheetsClient(config)
ConfigGetCall ==
    /\ cfgPc \in {"loaded", "overridden"}
    /\ lastGet.key = ""
    /\ \E key \in AskedKeys, default \in {None, "fallback"} :
         lastGet' = [key |-> key, default |-> default, environ |-> environ,
                     value |-> ConfigGet(config, key, Str(default)),
                     credentials_file |-> HasCredentialsFile(config),
                     spreadsheet_id |-> HasSpreadsheetId(config)]
    /\ UNCHANGED <<cfgFiles, environ, config, cfgCalls, cfgPc, cliRun>>
    /\ UNCHANGED <<aggVars, envVars, exportVars, runVars, mdVars, callVars, sheetVars>>

----------------------------------------------------------------------------
(* SpecPrStats: collect_pr_data_stats applied to every bounded PR corpus. *)

\* the --days values: the one-day window and the default
ExportDays == {1, DefaultDays}

CollectPrDataStats ==
    /\ prPc = "start"
    /\ prStats' = collect_pr_data_stats(prCorpus, prDays, clock)
    /\ prPc' = "done"
    /\ UNCHANGED <<prCorpus, prDays, usageFeed, unified, flat, exportRuns>>
    /\ UNCHANGED <<aggVars, envVars, runVars, auxVars>>

----------------------------------------------------------------------------
(* SpecExport: the activity extractor fills ./data, then the exporter runs. *)

\* the PR corpora the export runs see: a missing directory, an empty one, and
\* one that holds PR files 1 and 2
ExportCorpora ==
    {c \in PrCorpora :
        c.files \in {<<>>, <<PrFile(1, "naive", Now0 - 12, "open", FALSE, "alice"),
                            PrFile(2, "naive", Now0 - 24, "closed", TRUE,
                                   "devin-ai-integration[bot]")>>}}

UsageFeeds ==
    {[exists |-> FALSE, sessions |-> <<>>]}
        \cup {[exists |-> TRUE, sessions |-> ss] : ss \in SeqsUpTo(Sessions, MaxSessions)}

\* --output-file: the default name, or a name with a directory part
OutputFiles == {DefaultOutputFile, FilePath("exports", "raw/github", "looker_studio_data", "json")}

FlatOutputFile == FilePath("", "", "looker_studio_flat", "json")

\* one call of extract_github_data before any export has run
ExpExtract ==
    /\ exportRuns = <<>>
    /\ \E repo \in HostRepos, include_prs \in BOOLEAN, issue_ok \in BOOLEAN, pr_ok \in BOOLEAN :
         LET call == extract_github_data(tree, repo, 7, include_prs, "UTC", clock,
                                         hasToken, issue_ok, pr_ok)
         IN /\ tree' = call.tree
            /\ dirs' = dirs \cup call.mkdirs
    /\ UNCHANGED <<clock, hasToken, exportVars, aggVars, runVars, auxVars>>

\* cli.py --format unified: generate_unified_export(output_file, days)
ExpUnified ==
    /\ Len(exportRuns) < MaxExports
    /\ \E output_file \in OutputFiles, days \in ExportDays :
         LET run == generate_unified_export(tree, prCorpus, usageFeed, output_file, days, clock)
         IN /\ unified' = run.unified
            /\ tree' = run.tree
            /\ dirs' = dirs \cup run.mkdirs
            /\ exportRuns' = Append(exportRuns,
                                    [kind |-> "unified", file |-> output_file,
                                     scanned |-> GlobRawGithub(tree),
                                     total |-> run.unified.metadata.total_records])
    /\ UNCHANGED <<clock, hasToken, prCorpus, usageFeed, flat, prDays, prStats, prPc>>
    /\ UNCHANGED <<aggVars, runVars, auxVars>>

\* cli.py --format flat: export_for_google_sheets(output_file)
ExpFlat ==
    /\ Len(exportRuns) < MaxExports
    /\ LET run == export_for_google_sheets(tree, prCorpus, usageFeed, FlatOutputFile, clock)
       IN /\ unified' = run.unified
          /\ flat' = run.flat
          /\ tree' = run.tree
          /\ dirs' = dirs \cup run.mkdirs
          /\ exportRuns' = Append(exportRuns,
                                  [kind |-> "flat", file |-> DefaultOutputFile,
                                   scanned |-> GlobRawGithub(tree),
                                   total |-> run.unified.metadata.total_records])
    /\ UNCHANGED <<clock, hasToken, prCorpus, usageFeed, prDays, prStats, prPc>>
    /\ UNCHANGED <<aggVars, runVars, auxVars>>

----------------------------------------------------------------------------
(* Claims about collect_pr_data_stats (SpecPrStats). *)

RateInUnit(r) == 0 <= r.merge_rate.num /\ r.merge_rate.num <= r.merge_rate.den

RateIsZero(r) == r.merge_rate.num = 0

\* C3, as stated: in every summary record merge_rate is in [0, 1], merged_prs <=
\* total_prs, and merge_rate is 0 exactly when total_prs is 0.
C3_ZeroExactlyWhenNoPrs ==
    prPc = "done" =>
        \A i \in 1..Len(prStats) :
            /\ RateInUnit(prStats[i])
            /\ prStats[i].merged_prs <= prStats[i].total_prs
            /\ RateIsZero(prStats[i]) <=> prStats[i].total_prs = 0

\* C3, amended: in every summary record merge_rate is in [0, 1], merged_prs <=
\* total_prs, and merge_rate is 0 exactly when merged_prs is 0 (so it is 0 when
\* total_prs is 0, and also when PRs were counted but none of them is merged).
C3_ZeroExactlyWhenNoneMerged ==
    prPc = "done" =>
        \A i \in 1..Len(prStats) :
            /\ RateInUnit(prStats[i])
            /\ prStats[i].merged_prs <= prStats[i].total_prs
            /\ RateIsZero(prStats[i]) <=> prStats[i].merged_prs = 0
            /\ prStats[i].total_prs = 0 => RateIsZero(prStats[i])

C3_Witness ==
    /\ prPc = "done"
    /\ \E i \in 1..Len(prStats) :
         /\ prStats[i].total_prs = 2
         /\ prStats[i].merged_prs = 0
         /\ RateIsZero(prStats[i])

\* the PR's createdAt instant is at or after now - window_days
CreatedInWindow(pr, now, days) ==
    /\ pr.basic_info.created_at.form # "empty"
    /\ pr.basic_info.created_at.at >= now - 24 * days

\* C4: total_prs is the number of PRs whose createdAt instant is >= now -
\* window_days, however the timestamp is written (with a Z or a UTC offset too);
\* merged_prs counts those of them that are closed with a merge timestamp,
\* open_prs those whose state is open.
C4_CountsThePrsOfTheWindow ==
    prPc = "done" =>
        \A i \in 1..Len(prStats) :
            LET inWindow == {k \in 1..Len(prCorpus.files) :
                                CreatedInWindow(prCorpus.files[k], clock, prDays)}
            IN /\ prStats[i].total_prs = Cardinality(inWindow)
               /\ prStats[i].merged_prs =
                    Cardinality({k \in inWindow :
                                    /\ prCorpus.files[k].basic_info.state = "closed"
                                    /\ prCorpus.files[k].basic_info.merged_at})
               /\ prStats[i].open_prs =
                    Cardinality({k \in inWindow : prCorpus.files[k].basic_info.state = "open"})

\* the all-zero summary: no PR counted, and the rate is the number 0
IsZeroSummary(r) ==
    /\ r.type = "summary"
    /\ r.total_prs = 0 /\ r.merged_prs = 0 /\ r.open_prs = 0
    /\ r.merge_rate.num = 0 /\ r.merge_rate.den > 0

\* C26, as stated: for an empty PR corpus, the corpus directory that does not
\* exist included, collect_pr_data_stats yields exactly one summary record,
\* with total_prs = 0, merged_prs = 0, open_prs = 0 and merge_rate = 0.
C26_EmptyCorpusGivesTheZeroSummary ==
    prPc = "done" /\ prCorpus.files = <<>> =>
        Len(prStats) = 1 /\ IsZeroSummary(prStats[1])

\* C26, amended: for an empty PR corpus whose directory exists,
\* collect_pr_data_stats yields exactly one summary record, with total_prs = 0,
\* merged_prs = 0, open_prs = 0 and merge_rate = 0; when the corpus directory
\* does not exist it yields no record.
C26_ZeroSummaryIfTheDirectoryExists ==
    prPc = "done" /\ prCorpus.files = <<>> =>
        IF prCorpus.exists
        THEN Len(prStats) = 1 /\ IsZeroSummary(prStats[1])
        ELSE prStats = <<>>

C26_Witness ==
    /\ prPc = "done" /\ prCorpus = [exists |-> TRUE, files |-> <<>>]
    /\ Len(prStats) = 1 /\ prStats[1].total_prs = 0

----------------------------------------------------------------------------
(* Claims about the exports (SpecExport). *)

\* the latest export run of the log
LastRun == exportRuns[Len(exportRuns)]

SourceLengths ==
    Len(unified.github_activity) + Len(unified.devin_stats) + Len(unified.pr_statistics)

\* the latest export run scanned no snapshot file and read an empty usage feed
RanOverNothing ==
    /\ exportRuns # <<>>
    /\ LastRun.scanned = {}
    /\ ~usageFeed.exists \/ usageFeed.sessions = <<>>

AllSourcesEmpty ==
    /\ unified.metadata.total_records = 0
    /\ Len(unified.github_activity) = 0
    /\ Len(unified.devin_stats) = 0
    /\ Len(unified.pr_statistics) = 0

\* C5, as stated: an export over zero snapshot files and an empty usage feed
\* yields total_records = 0 and three empty source lists, whether the PR corpus
\* directory is absent or present and empty.
C5_EmptyExportWhateverTheCorpus ==
    (RanOverNothing /\ prCorpus.files = <<>>) => AllSourcesEmpty

\* C5, amended: such an export yields total_records = 0 and three empty source
\* lists when the PR corpus directory is absent; when the directory is present
\* and empty, pr_statistics holds the one all-zero summary record and
\* total_records is 1, the other two lists being empty.
C5_EmptyExportByCorpusState ==
    (RanOverNothing /\ prCorpus.files = <<>>) =>
        /\ ~prCorpus.exists => AllSourcesEmpty
        /\ prCorpus.exists =>
             /\ unified.metadata.total_records = 1
             /\ Len(unified.github_activity) = 0
             /\ Len(unified.devin_stats) = 0
             /\ Len(unified.pr_statistics) = 1
             /\ unified.pr_statistics[1].total_prs = 0
             /\ unified.pr_statistics[1].merged_prs = 0
             /\ unified.pr_statistics[1].open_prs = 0
             /\ RateIsZero(unified.pr_statistics[1])

C5_Witness ==
    /\ RanOverNothing
    /\ ~prCorpus.exists
    /\ usageFeed.exists
    /\ unified.metadata.total_records = 0

\* C6: after any sequence of export runs over unchanged inputs the latest
\* total_records is the sum of the lengths of its source lists and equals the
\* total of the first run: no run re-ingests the output of an earlier one.
C6_NoReingestAcrossRuns ==
    exportRuns # <<>> =>
        /\ unified.metadata.total_records = SourceLengths
        /\ \A i \in 1..Len(exportRuns) : exportRuns[i].total = exportRuns[1].total

\* which source the flat record at position i must come from
SourceAt(i) ==
    IF i <= Len(unified.github_activity) THEN "github_activity"
    ELSE IF i <= Len(unified.github_activity) + Len(unified.devin_stats) THEN "devin_stats"
    ELSE "pr_statistics"

\* C7: the flat export holds exactly one record per record of the unified
\* export it is built from (as many as metadata.total_records, source by
\* source), and every flat record has exactly the 11 columns of the schema.
C7_FlatIsAReprojection ==
    (exportRuns # <<>> /\ LastRun.kind = "flat") =>
        /\ Len(flat) = unified.metadata.total_records
        /\ Len(flat) = SourceLengths
        /\ Cardinality(FlatColumns) = 11
        /\ \A i \in 1..Len(flat) :
              /\ DOMAIN flat[i] = FlatColumns
              /\ flat[i].source_type = SourceAt(i)

C7_Witness ==
    /\ exportRuns # <<>> /\ LastRun.kind = "flat"
    /\ Len(unified.github_activity) > 0
    /\ Len(unified.devin_stats) > 1
    /\ Len(unified.pr_statistics) > 0
    /\ Len(flat) = SourceLengths

\* the items of the {repo_name}.json snapshots among the scanned files
SnapshotItems(files) ==
    LET fs == SetToSeq(files)
    IN SumSeq([i \in 1..Len(fs) |->
                  IF fs[i].stem \in {repo_name(r) : r \in HostRepos}
                  THEN Len(read_json_file(tree, fs[i])) ELSE 0])

\* C8: a summary file is never read back: when the scanned raw/github files
\* are those the activity extractor wrote, every github_activity record stems
\* from an item of a {repo_name}.json snapshot and none from a summary file.
C8_SummaryNeverReadBack ==
    (exportRuns # <<>> /\ LastRun.scanned \cap OutputFiles = {}) =>
        /\ \A i \in 1..Len(unified.github_activity) :
              unified.github_activity[i].repository \in {repo_name(r) : r \in HostRepos}
        /\ Len(unified.github_activity) = SnapshotItems(LastRun.scanned)

----------------------------------------------------------------------------
(* Claims about the date-range directory (SpecRun) *)

\* calls i and i+1 of the log are the same collector over the same
\* (start_date, end_date)
SameWindowRuns(i) ==
    /\ i \in 1..(Len(runLog) - 1)
    /\ runLog[i].fn = runLog[i + 1].fn
    /\ runLog[i].start_date = runLog[i + 1].start_date
    /\ runLog[i].end_date = runLog[i + 1].end_date

\* ... and for the same repositories
SameWindowRerun(i) == SameWindowRuns(i) /\ runLog[i].target = runLog[i + 1].target

\* the snapshot files a call of the collector writes when it writes
SnapshotPathsOf(fn, target, label) ==
    IF fn = "extract_github_data"
    THEN {SnapshotPath(label, target[1]), SummaryPath(label, target[1])}
    ELSE {FilePath(label, "raw/commits", "aggregated_commits", "json"),
          FilePath(label, "raw/commits", "summary", "json")}

\* the label a call over these dates must have
LabelOfDates(start_date, end_date) == isoformat(start_date) \o "_to_" \o isoformat(end_date)

\* C9 (as stated): two runs of a collector over the same (start_date,
\* end_date) compute the same label and write the same paths, so the set of
\* snapshot paths under the window directory after the second run equals the
\* set after the first.
C9_RerunLeavesTheSameFiles ==
    \A i \in 1..(Len(runLog) - 1) :
        SameWindowRuns(i) =>
            /\ runLog[i].label = runLog[i + 1].label
            /\ runLog[i + 1].after = runLog[i].after

\* C9 (amended): two runs of a collector over the same (start_date, end_date)
\* and the same repositories have the same label, a function of the two dates
\* alone; the second run writes only the snapshot paths of that label, so the
\* set after it is the set after the first plus what it wrote, and it is the
\* same set whenever the first run wrote its snapshot.
C9_RerunOverwritesInPlace ==
    \A i \in 1..(Len(runLog) - 1) :
        SameWindowRerun(i) =>
            LET first == runLog[i]
                second == runLog[i + 1]
            IN /\ first.label = second.label
               /\ second.label = LabelOfDates(second.start_date, second.end_date)
               /\ second.written \in
                     {{}, SnapshotPathsOf(second.fn, second.target, second.label)}
               /\ second.after = first.after \cup second.written
               /\ first.written # {} => second.after = first.after

\* a collector ran twice over the same dates and repositories, at two times of
\* the day, and wrote both times
C9_Witness ==
    \E i \in 1..(Len(runLog) - 1) :
        /\ SameWindowRerun(i)
        /\ runLog[i].written # {} /\ runLog[i + 1].written # {}
        /\ runLog[i + 1].after = runLog[i].after
        /\ clock > Now0 + 12

\* C10: within one github_report run with --markdown, the label of main and the
\* label of every extract_github_data call of the run are the same, even when
\* the clock passes midnight between the calls.
C10_OneLabelPerRun ==
    mainPc # "idle" /\ mainArgs.markdown =>
        \A w \in mainWrites : w.label = mainLabel

----------------------------------------------------------------------------
(* Claims about the Markdown report (SpecMarkdown) *)

\* the positions of the directory segments of the raw file whose name has the marker
MarkerPositions(json_file) ==
    {k \in 1..(Len(json_file.segs) - 1) : Contains(json_file.segs[k], "_to_")}

\* C11: from a raw file with an ancestor segment matching *_to_* at any depth,
\* generate_markdown_from_file writes the report to <that segment's
\* directory>/markdown/github/github_report-{repo}.md and the report's period is
\* that segment's window; only without such a segment is the trailing 7-day
\* window used.
C11_WindowFromAncestorSegment ==
    mdPc = "from_file" /\ mdIn.items # <<>> =>
        /\ mdOut.status = "written"
        /\ IF MarkerPositions(mdIn.json_file) # {}
           THEN \E k \in MarkerPositions(mdIn.json_file) :
                   /\ mdOut.mkdir = PathOf(mdIn.json_file.abs,
                                           SubSeq(mdIn.json_file.segs, 1, k)
                                               \o <<"markdown", "github">>)
                   /\ mdOut.output_file =
                          PathJoin(mdOut.mkdir, <<"github_report-r.md">>)
                   /\ mdOut.report.start \o "_to_" \o mdOut.report.end
                          = mdIn.json_file.segs[k]
           ELSE LET end_date == DateTime(mdIn.now, mdIn.timezone_str)
                IN /\ mdOut.report.end = isoformat(DateOf(end_date))
                   /\ mdOut.report.start = isoformat(DateOf(MinusDays(end_date, 7)))

HasMergeable(item) == "mergeable" \in DOMAIN item

\* the headings of the report that show this item type
HeadingsOf(details, item_type) == {i \in 1..Len(details) : details[i].item_type = item_type}

\* C18: generate_markdown classifies every item once, PR iff it carries the
\* `mergeable` key, in the summary counts and in the headings alike: Issue数 +
\* PR数 is the number of items, the headings show as many PRs and Issues as the
\* summary counts, and a list of Issues only gives Issue数 = total and PR数 = 0.
C18_OneClassificationRule ==
    mdPc = "report" /\ mdIn.items # <<>> =>
        /\ mdOut.total = Len(mdIn.items)
        /\ mdOut.issues + mdOut.prs = mdOut.total
        /\ mdOut.prs = Cardinality({i \in 1..Len(mdIn.items) : HasMergeable(mdIn.items[i])})
        /\ Len(mdOut.details) = mdOut.total
        /\ Cardinality(HeadingsOf(mdOut.details, "PR")) = mdOut.prs
        /\ Cardinality(HeadingsOf(mdOut.details, "Issue")) = mdOut.issues
        /\ (\A i \in 1..Len(mdIn.items) : ~HasMergeable(mdIn.items[i]))
              => mdOut.issues = mdOut.total /\ mdOut.prs = 0

\* a report over three items, among them an Issue that has a merge date and a
\* PR that has none
C18_Witness ==
    /\ mdPc = "report"
    /\ Len(mdIn.items) = 3
    /\ mdOut.prs = 1 /\ mdOut.issues = 2
    /\ \E i \in 1..3 : ~HasMergeable(mdIn.items[i]) /\ "mergedAt" \in DOMAIN mdIn.items[i]
    /\ \E i \in 1..3 : HasMergeable(mdIn.items[i]) /\ "mergedAt" \notin DOMAIN mdIn.items[i]

\* C24: the fallback of generate_markdown_from_file is not fatal: for every
\* json_file path, absolute or relative, whose great-grandparent has no
\* *_to_* name, the upward walk terminates and the report is written under a
\* directory labelled with the 7-day window ending now.
C24_FallbackTerminatesAndWrites ==
    /\ mdPc = "from_file" /\ mdIn.items # <<>>
    /\ ~Contains(PathName(PathParent(PathParent(PathParent(mdIn.json_file)))), "_to_")
    => /\ mdOut.status = "written"
       /\ LET end_date == DateTime(mdIn.now, mdIn.timezone_str)
              label == date_range_dir(MinusDays(end_date, 7), end_date)
              n == Len(mdOut.mkdir.segs)
          IN /\ n >= 3
             /\ SubSeq(mdOut.mkdir.segs, n - 2, n) = <<label, "markdown", "github">>
             /\ mdOut.output_file = PathJoin(mdOut.mkdir, <<"github_report-r.md">>)

\* the detail section is items[p[1]], items[p[2]], ... as format_item renders them
RendersInOrder(details, items, p) ==
    \A i \in 1..Len(items) : details[i] = format_item(items[p[i]])

\* C27: in the detail section of a generated report every input item is
\* rendered exactly once, and the items appear in non-increasing order of
\* updatedAt, for every item list, items without updatedAt or with equal
\* updatedAt included.
C27_DetailsAreTheItemsNewestFirst ==
    mdPc = "report" =>
        /\ Len(mdOut.details) = Len(mdIn.items)
        /\ \E p \in Permutations_of(Len(mdIn.items)) :
              /\ RendersInOrder(mdOut.details, mdIn.items, p)
              /\ \A i \in 1..(Len(mdIn.items) - 1) :
                    UpdatedRank(mdIn.items[p[i]]) >= UpdatedRank(mdIn.items[p[i + 1]])

\* a list given oldest first, with an item that has no updatedAt and two
\* items of the same updatedAt
C27_Witness ==
    /\ mdPc = "report" /\ Len(mdIn.items) = 3
    /\ "updatedAt" \notin DOMAIN mdIn.items[1]
    /\ Get(mdIn.items[2], "updatedAt", "") = Get(mdIn.items[3], "updatedAt", "")
    /\ mdIn.items[2] # mdIn.items[3]
    /\ mdOut.details[3] = format_item(mdIn.items[1])

\* C28: format_item renders the body preview as the body unchanged when the
\* body has at most 200 characters and as exactly its first 200 characters
\* followed by "..." when it is longer; an item whose body is empty or
\* missing gets no preview section.
C28_PreviewIsTheBodyCutAt200 ==
    mdPc = "item" =>
        LET body == Get(mdIn.item, "body", "")
        IN IF body = "" THEN ~mdOut.has_preview
           ELSE /\ mdOut.has_preview
                /\ IF Len(body) <= 200 THEN mdOut.body_preview = body
                   ELSE /\ Len(mdOut.body_preview) = 203
                        /\ SubSeq(mdOut.body_preview, 1, 200) = SubSeq(body, 1, 200)
                        /\ SubSeq(mdOut.body_preview, 201, 203) = "..."

\* a body of 201 characters, cut
C28_Witness ==
    /\ mdPc = "item" /\ "body" \in DOMAIN mdIn.item
    /\ Len(mdIn.item.body) = 201
    /\ mdOut.has_preview /\ Len(mdOut.body_preview) = 203

----------------------------------------------------------------------------
(* Claims about collector calls with failing fetches or no token (SpecCalls) *)

\* the repositories of the latest commit collection whose fetch did not fail
NonFailing(repos, fetch_ok) == SelectSeq(repos, LAMBDA r : fetch_ok[r])

\* the commits the host holds for a list of repositories, in list order
CommitsOf(repos) == Concat([i \in 1..Len(repos) |-> HostCommits(repos[i])])

\* C12: a fetch failure for one repository never aborts a commit collection:
\* whatever subset of the repositories fails, collect_all_commit_data tries
\* every repository and returns the aggregation of the commits of exactly the
\* non-failing ones.
C12_FailedReposContributeNothing ==
    lastCall.fn = "collect_all_commit_data" /\ lastCall.token =>
        /\ lastCall.ret.fetches = Len(lastCall.repos)
        /\ lastCall.ret.aggregated =
              aggregate_commit_data(CommitsOf(NonFailing(lastCall.repos, lastCall.fetch_ok)))
        /\ lastCall.ret.aggregated # <<>> =>
              read_json_file(tree, lastCall.ret.commit_file) = lastCall.ret.aggregated

\* a collection over two repositories whose first fetch failed and whose
\* second succeeded
C12_Witness ==
    /\ lastCall.fn = "collect_all_commit_data" /\ lastCall.token
    /\ Len(lastCall.repos) = 2
    /\ ~lastCall.fetch_ok[lastCall.repos[1]] /\ lastCall.fetch_ok[lastCall.repos[2]]
    /\ lastCall.ret.aggregated = aggregate_commit_data(HostCommits(lastCall.repos[2]))

\* C13: without a token a collector call returns its empty result, issues no
\* fetch, and creates no snapshot file and no snapshot directory.
C13_NoTokenLeavesNothing ==
    lastCall.fn # "none" /\ ~lastCall.token =>
        /\ ~lastCall.ret.ok
        /\ lastCall.ret.fetches = 0
        /\ lastCall.ret.written = {}
        /\ lastCall.ret.mkdirs = {}

\* C16: after a call in which a fetch failed, the snapshot file still holds the
\* complete collection of its repository: all its issues and, when PRs were
\* asked for, all its PRs.
C16_NoPartialSnapshot ==
    lastCall.fn = "extract_github_data" /\ lastCall.ret.ok =>
        read_json_file(tree, lastCall.ret.json_file) =
            HostIssues(lastCall.repo)
                \o (IF lastCall.include_prs THEN HostPRs(lastCall.repo) ELSE <<>>)

\* C17: the raw snapshot is the fetched issues followed by the fetched PRs,
\* unmodified; the summary's counts.total = counts.issues + counts.prs = the
\* number of items of the snapshot; with include_prs false counts.prs = 0 and
\* the snapshot holds the issues only.
C17_SnapshotIsIssuesThenPrs ==
    lastCall.fn = "extract_github_data" /\ lastCall.ret.ok =>
        LET issues == Fetched(lastCall.issue_ok, HostIssues(lastCall.repo))
            prs == Fetched(lastCall.pr_ok, HostPRs(lastCall.repo))
            snapshot == read_json_file(tree, lastCall.ret.json_file)
            counts == read_json_file(tree, SummaryPath(lastCall.ret.label, lastCall.repo))[1].counts
        IN /\ snapshot = issues \o (IF lastCall.include_prs THEN prs ELSE <<>>)
           /\ counts.total = counts.issues + counts.prs
           /\ counts.total = Len(snapshot)
           /\ counts.issues = Len(issues)
           /\ ~lastCall.include_prs => counts.prs = 0 /\ snapshot = issues

\* a call that fetched two issues and one PR
C17_Witness ==
    /\ lastCall.fn = "extract_github_data" /\ lastCall.ret.ok
    /\ lastCall.include_prs /\ lastCall.issue_ok /\ lastCall.pr_ok
    /\ Len(read_json_file(tree, lastCall.ret.json_file)) = 3
    /\ lastCall.ret.result.counts = [issues |-> 2, prs |-> 1, total |-> 3]

----------------------------------------------------------------------------
(* Claims about the worksheet (SpecSheets) *)

\* the rows of a worksheet as get_all_values returns them
RowsOf(ws) == IF ws.exists THEN ws.rows ELSE <<>>

\* one row per CommitAggregate, in input order
ExpectedRows(commit_data) ==
    [i \in 1..Len(commit_data) |->
        <<commit_data[i].repository, commit_data[i].author, commit_data[i].date,
          ToString(commit_data[i].count)>>]

\* C19: after write_commit_data with a non-empty list, on any worksheet, the
\* first row is the 4-column header and the last N rows are the rows of the
\* aggregates in input order; if the first row was the header before, the old
\* rows are all kept, otherwise the worksheet is the header and the N rows.
C19_HeaderThenAppendedRows ==
    lastUpload.fn = "write_commit_data" /\ ~lastUpload.raised
        /\ lastUpload.commit_data # <<>> =>
        LET before == RowsOf(lastUpload.before)
            rows == worksheet.rows
            n == Len(lastUpload.commit_data)
        IN /\ worksheet.exists
           /\ Len(rows) >= n + 1
           /\ rows[1] = Headers
           /\ SubSeq(rows, Len(rows) - n + 1, Len(rows)) = ExpectedRows(lastUpload.commit_data)
           /\ IF before # <<>> /\ before[1] = Headers
              THEN SubSeq(rows, 1, Len(before)) = before /\ Len(rows) = Len(before) + n
              ELSE Len(rows) = n + 1

\* two aggregates were written over rows that did not start with the header
C19_Witness ==
    /\ lastUpload.fn = "write_commit_data" /\ ~lastUpload.raised
    /\ Len(lastUpload.commit_data) = 2
    /\ Len(RowsOf(lastUpload.before)) = 2
    /\ RowsOf(lastUpload.before)[1] # Headers
    /\ Len(worksheet.rows) = 3

----------------------------------------------------------------------------
(* Claims about the CLI entry points (SpecCli) *)

\* C14: at every CLI entry point a missing credential (the host token for
\* github_report and the commit collector, the API key for the report writer)
\* makes the process exit non-zero, with no network call made before the exit.
C14_MissingCredentialIsFatal ==
    cliRun.entry # "none" /\ ~cliRun.credential =>
        cliRun.exit # 0 /\ cliRun.network = 0

\* C15: when no repositories are resolved or no commits are found, the commit
\* collector's main returns a non-zero status without raising an exception.
C15_NothingToDoReturnsNonZero ==
    /\ cliRun.entry = "commit_collector"
    /\ \/ cliRun.args.repos = <<>> /\ cliRun.args.listed = <<>>
       \/ ~cliRun.args.token
    => cliRun.exit # 0 /\ ~cliRun.raised

\* C25: every TimeWindow a collector computes has start <= end, for every
\* window_days value the command line accepts, zero and negative integers
\* included, and for both supported timezones.
C25_WindowStartsBeforeItEnds ==
    cliRun.entry = "github_report" =>
        cliRun.window.start.utc <= cliRun.window.end.utc

----------------------------------------------------------------------------
(* Claims about the narrative report writer (SpecAi) *)

\* the report files ai_report-{repo_name}.md
IsAiReport(p) ==
    p.ext = "md" /\ \E repo \in HostRepos : p.stem = "ai_report-" \o repo_name(repo)

\* the files that a run created or modified
ChangedFiles(before, after) ==
    {p \in DOMAIN after : p \notin DOMAIN before \/ before[p] # after[p]}

\* C21: an empty completion-API response, a call that raised included, is a
\* failure of the report writer: process_github_data returns None, no file is
\* created or modified and the CLI exits with status 1; whatever file a run
\* writes is a report file holding the non-empty response text verbatim.
C21_EmptyResponseWritesNothing ==
    cliRun.entry = "call_openai_api" =>
        LET outcome == cliRun.args.outcome
            changed == ChangedFiles(cliRun.before, cliRun.after)
        IN /\ cliRun.network = 1 /\ (outcome.raised \/ outcome.content = "") =>
                cliRun.result = NoPath /\ changed = {} /\ cliRun.exit = 1
           /\ \A p \in changed :
                /\ IsAiReport(p)
                /\ ~outcome.raised /\ outcome.content # ""
                /\ cliRun.after[p] = TextFile(outcome.content)

\* a call that raised, made when the report of an earlier run is on disk
C21_Witness ==
    /\ cliRun.entry = "call_openai_api"
    /\ cliRun.network = 1 /\ cliRun.args.outcome.raised
    /\ \E p \in DOMAIN cliRun.before : IsAiReport(p) /\ p.stem = "ai_report-" \o repo_name(cliRun.args.repo)
    /\ cliRun.exit = 1

----------------------------------------------------------------------------
(* Claims about the configuration (SpecConfig) *)

\* the environment variables set both before Config(config_file=...) and in
\* the override file
SetOnBothSides ==
    {o \in DOMAIN OptionEnv :
        /\ OptionEnv[o] \in DOMAIN cfgCalls[Len(cfgCalls)].before
        /\ OptionEnv[o] \in DOMAIN cfgFiles.override}

\* C22: after Config(config_file=...) returns, every recognized option that
\* is set both in the environment (or in the .env loaded at startup) and in
\* the override file has the override file's value in the configuration.
C22_OverrideFileTakesPrecedence ==
    cfgPc = "overridden" =>
        \A o \in SetOnBothSides :
            /\ ConfigGet(config, OptionKey[o], Str(None)) = Str(cfgFiles.override[OptionEnv[o]])
            /\ o = "output_timezone" =>
                 cfgCalls[Len(cfgCalls)].timezone_str = cfgFiles.override[OptionEnv[o]]

\* the defaults of the two output options
OutputDefault == [output_default_dir |-> "./data", output_timezone |-> "UTC"]

\* C23: Config.get resolves each of the six recognized options to its
\* configured value when one is set, so that a configured credentials file
\* and spreadsheet id reach the spreadsheet writer, and returns './data' and
\* 'UTC' for the two output options when they are unset.
C23_GetResolvesTheSixOptions ==
    lastGet.key # "" =>
        /\ \A o \in DOMAIN OptionKey :
             lastGet.key = OptionKey[o] =>
                IF OptionEnv[o] \in DOMAIN lastGet.environ
                THEN lastGet.value = Str(lastGet.environ[OptionEnv[o]])
                ELSE o \in DOMAIN OutputDefault => lastGet.value = Str(OutputDefault[o])
        /\ "GOOGLE_SHEETS_CREDENTIALS_FILE" \in DOMAIN lastGet.environ => lastGet.credentials_file
        /\ "GOOGLE_SHEETS_SPREADSHEET_ID" \in DOMAIN lastGet.environ => lastGet.spreadsheet_id

----------------------------------------------------------------------------
(* Idle values of the variable groups a specification does not use. *)

AggIdle == commits = <<>> /\ aggregated = <<>> /\ aggPc = "idle"

EnvAtNow0 == clock = Now0 /\ hasToken = TRUE /\ tree = NoFiles /\ dirs = {}

ExportIdle ==
    /\ prCorpus = [exists |-> FALSE, files |-> <<>>]
    /\ usageFeed = [exists |-> FALSE, sessions |-> <<>>]
    /\ unified = <<>> /\ flat = <<>> /\ exportRuns = <<>>

PrStatsIdle == prDays = DefaultDays /\ prStats = <<>> /\ prPc = "idle"

MdIdle == mdPc = "idle" /\ mdIn = <<>> /\ mdOut = <<>>

CallIdle == lastCall = [fn |-> "none"] /\ callCount = 0

SheetIdle ==
    /\ worksheet = [exists |-> FALSE, rows |-> <<>>]
    /\ lastUpload = [fn |-> "none"]
    /\ uploads = 0

CfgIdle ==
    /\ environ = <<>> /\ cfgFiles = [dotenv |-> <<>>, override |-> <<>>]
    /\ config = NoConfig /\ cfgCalls = <<>> /\ cfgPc = "start" /\ lastGet = [key |-> ""]

CliIdle == cliRun = [entry |-> "none"] /\ CfgIdle

AuxIdle == MdIdle /\ CallIdle /\ SheetIdle /\ CliIdle

RunIdle ==
    /\ mainPc = "idle" /\ mainArgs = <<>> /\ mainLabel = ""
    /\ mainTodo = <<>> /\ mainItems = <<>> /\ mainWrites = {} /\ runLog = <<>>

----------------------------------------------------------------------------
(* The specifications. *)

InitAgg == AggInit /\ AuxIdle /\ EnvAtNow0 /\ ExportIdle /\ PrStatsIdle /\ RunIdle
NextAgg == Aggregate
SpecAgg == InitAgg /\ [][NextAgg]_vars

InitPrStats ==
    /\ AggIdle /\ EnvAtNow0 /\ RunIdle /\ AuxIdle
    /\ prCorpus \in PrCorpora
    /\ usageFeed = [exists |-> FALSE, sessions |-> <<>>]
    /\ unified = <<>> /\ flat = <<>> /\ exportRuns = <<>>
    /\ prDays \in ExportDays /\ prStats = <<>> /\ prPc = "start"
NextPrStats == CollectPrDataStats
SpecPrStats == InitPrStats /\ [][NextPrStats]_vars

InitExport ==
    /\ AggIdle /\ EnvAtNow0 /\ RunIdle /\ PrStatsIdle /\ AuxIdle
    /\ prCorpus \in ExportCorpora
    /\ usageFeed \in UsageFeeds
    /\ unified = <<>> /\ flat = <<>> /\ exportRuns = <<>>
NextExport == ExpExtract \/ ExpUnified \/ ExpFlat
SpecExport == InitExport /\ [][NextExport]_vars

InitMarkdown ==
    /\ AggIdle /\ EnvAtNow0 /\ ExportIdle /\ PrStatsIdle /\ RunIdle /\ MdIdle /\ CallIdle
    /\ SheetIdle /\ CliIdle
NextMarkdown == GenerateMarkdownFromFile \/ GenerateMarkdown \/ FormatItem
SpecMarkdown == InitMarkdown /\ [][NextMarkdown]_vars

InitSheets ==
    /\ AggIdle /\ EnvAtNow0 /\ ExportIdle /\ PrStatsIdle /\ RunIdle /\ MdIdle /\ CallIdle
    /\ CliIdle
    /\ worksheet \in InitialSheets /\ lastUpload = [fn |-> "none"] /\ uploads = 0
NextSheets == WriteCommitData \/ UploadToSheets
SpecSheets == InitSheets /\ [][NextSheets]_vars

InitCli ==
    /\ AggIdle /\ ExportIdle /\ PrStatsIdle /\ RunIdle /\ AuxIdle
    /\ clock = Now0 /\ hasToken \in BOOLEAN /\ tree = NoFiles /\ dirs = {}
NextCli == RunGithubReport \/ RunCommitCollector \/ RunCallOpenaiApi
SpecCli == InitCli /\ [][NextCli]_vars

\* the report writer starts on an empty data directory or on the snapshot
\* that one extract_github_data call left there
InitAi ==
    /\ AggIdle /\ ExportIdle /\ PrStatsIdle /\ RunIdle /\ AuxIdle
    /\ clock = Now0 /\ hasToken = TRUE
    /\ \/ tree = NoFiles /\ dirs = {}
       \/ \E repo \in HostRepos, include_prs \in BOOLEAN :
            LET call == extract_github_data(NoFiles, repo, LastDays, include_prs, "UTC",
                                            Now0, TRUE, TRUE, TRUE)
            IN tree = call.tree /\ dirs = call.mkdirs
NextAi == RunCallOpenaiApi
SpecAi == InitAi /\ [][NextAi]_vars

\* a process starts with some variables exported, a ./.env and a --config file
InitConfig ==
    /\ AggIdle /\ EnvAtNow0 /\ ExportIdle /\ PrStatsIdle /\ RunIdle
    /\ MdIdle /\ CallIdle /\ SheetIdle
    /\ cliRun = [entry |-> "none"]
    /\ \E e \in SettingSets, d \in SettingSets, o \in SettingSets :
         /\ environ = Settings("env", e)
         /\ cfgFiles = [dotenv |-> Settings("dotenv", d), override |-> Settings("override", o)]
    /\ config = NoConfig /\ cfgCalls = <<>> /\ cfgPc = "start" /\ lastGet = [key |-> ""]
NextConfig == ConfigStartup \/ ConfigOverride \/ ConfigGetCall
SpecConfig == InitConfig /\ [][NextConfig]_vars

InitCalls ==
    /\ AggIdle /\ ExportIdle /\ PrStatsIdle /\ RunIdle /\ AuxIdle
    /\ clock = Now0 /\ hasToken \in BOOLEAN /\ tree = NoFiles /\ dirs = {}
NextCalls == SetToken \/ CallExtractGithubData \/ CallCollectAllCommitData
SpecCalls == InitCalls /\ [][NextCalls]_vars

InitRun ==
    /\ AggIdle /\ ExportIdle /\ PrStatsIdle /\ RunIdle /\ AuxIdle
    /\ clock = Now0 + 12 /\ hasToken \in BOOLEAN /\ tree = NoFiles /\ dirs = {}
NextRun == Tick \/ SetToken \/ MainStart \/ MainExtract \/ MainFinish \/ CollectAllCommitData
SpecRun == InitRun /\ [][NextRun]_vars

====
